---- MODULE Spec2Model ----
(***************************************************************************)
(* State-machine model of the dashboard's real-time session bridge:        *)
(*   - the chat store (stores/chatStore.ts),                               *)
(*   - the chat transport hook useWebSocket (Presets/PresetBar.tsx:154),   *)
(*   - the chat composer InputArea (unnamed/part_000),                     *)
(*   - the session list (Sidebar/SessionList.tsx),                         *)
(*   - the PTY terminal ClaudeTerminal (ClaudeTerminal/ClaudeTerminal.tsx),*)
(*   - the command runner TerminalPanel (Projects/ProjectSwitcher.tsx:509).*)
(* Every handler of the single-threaded event loop is one action.          *)
(***************************************************************************)
EXTENDS Integers, Sequences, FiniteSets, TLC

(***************************************************************************)
(* Bounds of the model.                                                    *)
(***************************************************************************)
MaxSockets == 2      \* WebSocket objects the chat hook creates in a run
MaxChunks == 3       \* chunks held in streamChunks
MaxSubmits == 2      \* accepted chat submissions in a run
MaxExchanges == 1    \* exchanges the aggregator specification streams
MaxPtySockets == 3   \* WebSocket objects the PTY terminal creates in a run
MaxMessages == 3     \* messages held in the store's history
MaxTpSockets == 3    \* WebSocket objects the command runner creates in a run
MaxPtyFrames == 2    \* frames the PTY terminal writes in a run
MaxTpFrames == 2     \* command frames the command runner writes in a run
MaxUploads == 2      \* uploads of the PTY terminal in flight at a time
MaxInbound == 2      \* frames the PTY socket delivers in a run
MaxTpLines == 2      \* output lines the command runner receives in a run

(***************************************************************************)
(* Values.                                                                 *)
(***************************************************************************)
Null == "<null>"                 \* JS null / undefined / absent JSON field
Contents == {"", "a", "b"}       \* chunk payloads
\* inbound chunk events <<content, chunk_type>>: every payload as text (tagged,
\* untagged, empty tag) and as result, and one chunk of each other type
AggChunks ==
    (Contents \X {Null, "", "text", "result"}) \cup ({"b"} \X {"tool_use", "status"})
SessionIds == {"s1"}
\* inbound chunk events <<content, chunk_type>> of the exchange specification
StreamChunksIn == {<<"a", Null>>, <<"b", "result">>}
Texts == {"", "q"}               \* composer input after trim()
ErrorTexts == {"e", ""}          \* data.message of an error event
NoEvt == [type |-> "none"]
Files == {"f", "g"}              \* files handed to an upload handler
\* the path that api.uploadFile resolves with for a file
PathOf(file) == "/up/" \o file
Paths == {PathOf(file) : file \in Files}
\* the files of one handleFiles call, in order
Batches == {<<"f">>, <<"g">>, <<"f", "g">>}
\* texts that are not a JSON object with a type: JSON.parse throws on the first
\* and returns null for the second, and reading null.type throws
MalformedFrames == {"oops", "null"}
Cmds == {"", "clear", "ls"}     \* runner input after trim()

\* JS truthiness of a string-or-null value
Truthy(v) == v # Null /\ v # ""

VARIABLES
    token,             \* localStorage "token" present
    \* ---- chat store (chatStore.ts) ----
    currentSessionId, messages, streaming, streamChunks,
    \* ---- useWebSocket hook ----
    wsRef,             \* socket id held in wsRef.current, 0 = null
    sentFirstRef,      \* sentFirstRef.current
    socks,             \* readyState of every chat WebSocket created
    chatTimers,        \* pending setTimeout(connect, 3000) timers
    chatDelay,         \* delay passed to the setTimeout armed last, 0 = none yet
    chatSent,          \* frames written to a chat socket, in order
    \* ---- InputArea ----
    fetches,           \* sessions whose selectSession awaits its api.get
    attachments,       \* pending attachment list
    upBatch,           \* files handleFileUpload still has to upload, the first
                       \* one being awaited
    chatCalls,         \* api.uploadFile calls made by the composer, per file
    chatUploading,     \* `uploading`
    uploadError,       \* `uploadError`, Null = none
    errTimers,         \* pending setTimeout(() => setUploadError(null), 3000)
    \* ---- observation of the run ----
    lastOp,            \* how the handler that ran last ended, when it was the
                       \* done handler or handleSend; "-" after any other
    lastBuf,           \* the buffer as the done or error handler that ran last
                       \* found it, <<>> after any other handler
    lastEvt,           \* the chunk or error event that the handler that ran last
                       \* received, NoEvt after any other handler
    sidOnCur,          \* a session_id event was handled on the socket in wsRef
                       \* since the last resetFirstMessage
    sidSeen,           \* a session_id event was handled since the last resetFirstMessage
    resetPending,      \* resetFirstMessage ran; no session_id event or send since
    afterDisconnect,   \* disconnect ran after a session_id event; no send since
    disposed,          \* disconnect ran; the consumer has not called connect since
    \* ---- ClaudeTerminal (PTY terminal) ----
    status,            \* "connecting" | "connected" | "disconnected"
    termRef,           \* termRef.current holds a terminal
    termSize,          \* <<term.cols, term.rows>>
    ptyWsRef,          \* socket id held in wsRef.current, 0 = null
    ptySocks,          \* readyState of every PTY WebSocket created
    reconnectTimer,    \* timer id held in reconnectTimer.current, 0 = null
    ptyTimers,         \* ids of the pending setTimeout(connect, RECONNECT_DELAY)
    ptyDelay,          \* delay passed to the setTimeout armed last, 0 = none yet
    uploads,           \* files whose handleFileUpload awaits api.uploadFile
    ptyCalls,          \* api.uploadFile calls made by the terminal, per file
    uploading,         \* `uploading`
    uploadInfo,        \* `uploadInfo`: the name in the upload banner, "" = none
    ptyIn,             \* frames the PTY sockets delivered to onmessage, in order,
                       \* each with whether the terminal existed on arrival
    fitTimers,         \* delays of the pending setTimeout(doFit, ...) timers
    observing,         \* the ResizeObserver is attached
    ptySent,           \* frames written to a PTY socket, in order
    termOut,           \* what term.write received, in order
    ptyPhase,          \* "unmounted" | "mounted" | "tornDown"
    ptyLast,           \* PTY handler that ran last
    \* ---- TerminalPanel (command runner) ----
    tpWsRef,           \* socket id held in wsRef.current, 0 = null
    tpSocks,           \* readyState of every runner WebSocket created
    tpTimers,          \* pending setTimeout(connect, 3000) timers
    tpRunning,         \* `running`: a command is awaiting its exit event
    tpSent,            \* frames written to a runner socket, in order
    tpLines,           \* `lines`: what the runner shows
    tpCwd,             \* `cwd`
    tpPhase,           \* "unmounted" | "mounted" | "tornDown"
    tpLast             \* runner handler that ran last

storeVars == <<currentSessionId, messages, streaming, streamChunks>>
hookVars == <<wsRef, sentFirstRef, socks, chatTimers, chatDelay, chatSent>>
obsVars == <<lastOp, lastBuf, lastEvt, sidOnCur, sidSeen, resetPending,
             afterDisconnect, disposed>>
composeVars == <<upBatch, chatCalls, chatUploading, uploadError, errTimers>>
chatVars == <<storeVars, hookVars, fetches, attachments, composeVars, obsVars>>
uploadVars == <<uploads, ptyCalls, uploading, uploadInfo>>
ptyVars == <<status, termRef, termSize, ptyWsRef, ptySocks, reconnectTimer,
             ptyTimers, ptyDelay, uploadVars, ptyIn, fitTimers, observing, ptySent,
             termOut, ptyPhase, ptyLast>>
tpViewVars == <<tpLines, tpCwd>>
tpVars == <<tpWsRef, tpSocks, tpTimers, tpRunning, tpSent, tpViewVars, tpPhase, tpLast>>
nonChatVars == <<ptyVars, tpVars>>
nonPtyVars == <<chatVars, tpVars>>
nonTpVars == <<chatVars, ptyVars>>
vars == <<token, chatVars, ptyVars, tpVars>>

Sockets == 1..MaxSockets
PtySockets == 1..MaxPtySockets
TpSockets == 1..MaxTpSockets
DefaultSize == <<80, 24>>        \* xterm's size before the first fit
Sizes == {<<80, 24>>, <<40, 12>>}
NumSockets == Cardinality({s \in Sockets : socks[s] # "unused"})
IsOpen(s) == s # 0 /\ socks[s] = "open"

(***************************************************************************)
(* Stream aggregator: the finalization rule of the done handler.           *)
(***************************************************************************)
\* data.chunk_type || "text"
ChunkTypeOf(chunkType) == IF Truthy(chunkType) THEN chunkType ELSE "text"

ResultIndices(chunks) == {i \in 1..Len(chunks) : chunks[i].type = "result"}

\* mutant of FindResult: the last result chunk instead of the first
FindLastResult(chunks) ==
    IF ResultIndices(chunks) = {} THEN 0
    ELSE CHOOSE i \in ResultIndices(chunks) : \A j \in ResultIndices(chunks) : j <= i

\* chunks.find((c) => c.type === "result"): the index of the chunk found,
\* 0 when find returns undefined
FindResult(chunks) ==
    IF ResultIndices(chunks) = {} THEN 0
    ELSE CHOOSE i \in ResultIndices(chunks) : \A j \in ResultIndices(chunks) : i <= j

IsText(c) == c.type = "text"

RECURSIVE Join(_)
Join(strs) == IF strs = <<>> THEN "" ELSE Head(strs) \o Join(Tail(strs))

\* mutant of JoinText: the filter on the chunk type is missing
JoinAllChunks(chunks) == Join([i \in 1..Len(chunks) |-> chunks[i].content])

\* chunks.filter((c) => c.type === "text").map((c) => c.content).join("")
JoinText(chunks) ==
    LET texts == SelectSeq(chunks, IsText)
    IN Join([i \in 1..Len(texts) |-> texts[i].content])

\* const content = resultChunk ? resultChunk.content : <joined text>
FinalContent(chunks) ==
    LET resultChunk == FindResult(chunks)
    IN IF resultChunk # 0 THEN chunks[resultChunk].content ELSE JoinText(chunks)

Msg(role, content, atts) == [role |-> role, content |-> content, attachments |-> atts]

\* mutant of DoneMessages: the message is appended whatever its content
DoneMessagesAlways(chunks) ==
    Append(messages, Msg("assistant", FinalContent(chunks), <<>>))

\* if (content) { addMessage({ role: "assistant", content, attachments: [] }) }
DoneMessages(chunks) ==
    IF Truthy(FinalContent(chunks))
    THEN Append(messages, Msg("assistant", FinalContent(chunks), <<>>))
    ELSE messages

(***************************************************************************)
(* MessageList: what the streaming bubble shows of the buffer.             *)
(***************************************************************************)
NotResult(c) == c.type # "result"

IsResult(c) == c.type = "result"

\* mutant of StreamingActivity: every result chunk is rendered
StreamingActivityAllResults(chunks) ==
    LET hasResult == ResultIndices(chunks) # {}
    IN [activity  |-> SelectSeq(chunks, NotResult),
        indicator |-> IF ~hasResult THEN "Claude is working..." ELSE "none",
        answers   |-> SelectSeq(chunks, IsResult)]

\* StreamingActivity({ chunks }): the activity items, the indicator line and
\* the rendered result chunk
StreamingActivity(chunks) ==
    LET hasResult == ResultIndices(chunks) # {}
        activityChunks == SelectSeq(chunks, NotResult)
        resultChunk == FindResult(chunks)
    IN [activity  |-> activityChunks,
        indicator |-> IF ~hasResult THEN "Claude is working..." ELSE "none",
        answers   |-> IF resultChunk # 0 THEN <<chunks[resultChunk]>> ELSE <<>>]

\* the bubble MessageList renders while streaming: StreamingActivity for a
\* buffer that holds chunks, its own indicator for an empty one
StreamingBubble ==
    IF streamChunks # <<>>
    THEN StreamingActivity(streamChunks)
    ELSE [activity |-> <<>>, indicator |-> "Connecting to Claude...", answers |-> <<>>]

Init ==
    /\ token = TRUE
    /\ currentSessionId = Null
    /\ messages = <<>>
    /\ streaming = FALSE
    /\ streamChunks = <<>>
    /\ wsRef = 0
    /\ sentFirstRef = FALSE
    /\ socks = [s \in Sockets |-> "unused"]
    /\ chatTimers = 0
    /\ chatDelay = 0
    /\ chatSent = <<>>
    /\ attachments = <<>>
    /\ fetches = {}
    /\ upBatch = <<>>
    /\ chatCalls = [f \in Files |-> 0]
    /\ chatUploading = FALSE
    /\ uploadError = Null
    /\ errTimers = 0
    /\ lastOp = "-"
    /\ lastBuf = <<>>
    /\ lastEvt = NoEvt
    /\ sidOnCur = FALSE
    /\ sidSeen = FALSE
    /\ resetPending = FALSE
    /\ afterDisconnect = FALSE
    /\ disposed = FALSE
    /\ status = "disconnected"
    /\ termRef = FALSE
    /\ termSize = DefaultSize
    /\ ptyWsRef = 0
    /\ ptySocks = [s \in PtySockets |-> "unused"]
    /\ reconnectTimer = 0
    /\ ptyTimers = {}
    /\ ptyDelay = 0
    /\ uploads = {}
    /\ ptyCalls = [f \in Files |-> 0]
    /\ uploading = FALSE
    /\ uploadInfo = ""
    /\ ptyIn = <<>>
    /\ fitTimers = {}
    /\ observing = FALSE
    /\ ptySent = <<>>
    /\ termOut = <<>>
    /\ ptyPhase = "unmounted"
    /\ ptyLast = "-"
    /\ tpWsRef = 0
    /\ tpSocks = [s \in TpSockets |-> "unused"]
    /\ tpTimers = 0
    /\ tpRunning = FALSE
    /\ tpSent = <<>>
    /\ tpLines = <<>>
    /\ tpCwd = "~"
    /\ tpPhase = "unmounted"
    /\ tpLast = "-"

(***************************************************************************)
(* useWebSocket: connect, the socket's handlers, sendMessage, disconnect.  *)
(***************************************************************************)
\* mutant of Connect: the first-message flag is reset with every new socket
ConnectResetsFlag ==
    IF ~token
    THEN UNCHANGED <<socks, wsRef, sentFirstRef>>
    ELSE /\ socks' = [socks EXCEPT ![NumSockets + 1] = "connecting"]
         /\ wsRef' = NumSockets + 1
         /\ sentFirstRef' = FALSE

\* body of connect(): a new socket replaces wsRef.current, unless no token
Connect ==
    /\ sentFirstRef' = sentFirstRef
    /\ IF ~token
       THEN UNCHANGED <<socks, wsRef>>
       ELSE /\ socks' = [socks EXCEPT ![NumSockets + 1] = "connecting"]
            /\ wsRef' = NumSockets + 1

CanConnect == token => NumSockets < MaxSockets

\* the consumer calls connect()
ChatConnect ==
    /\ CanConnect
    /\ Connect
    /\ lastOp' = "-" /\ lastBuf' = <<>> /\ lastEvt' = NoEvt /\ disposed' = FALSE
    /\ sidOnCur' = (sidOnCur /\ ~token)
    /\ UNCHANGED <<nonChatVars, fetches, token, storeVars, chatTimers, chatDelay, chatSent, attachments, composeVars, sidSeen,
                   resetPending, afterDisconnect>>

\* a setTimeout(connect, 3000) armed by onclose fires
ChatTimerFire ==
    /\ chatTimers > 0
    /\ CanConnect
    /\ chatTimers' = chatTimers - 1
    /\ chatDelay' = chatDelay
    /\ Connect
    /\ lastOp' = "-" /\ lastBuf' = <<>> /\ lastEvt' = NoEvt
    /\ sidOnCur' = (sidOnCur /\ ~token)
    /\ UNCHANGED <<nonChatVars, fetches, token, storeVars, chatSent, attachments, composeVars, sidSeen, resetPending,
                   afterDisconnect, disposed>>

\* ws.onopen
ChatOnOpen(s) ==
    /\ socks[s] = "connecting"
    /\ socks' = [socks EXCEPT ![s] = "open"]
    /\ lastOp' = "-" /\ lastBuf' = <<>> /\ lastEvt' = NoEvt
    /\ UNCHANGED <<nonChatVars, fetches, token, storeVars, wsRef, sentFirstRef, chatTimers, chatDelay, chatSent,
                   attachments, composeVars, sidOnCur, sidSeen, resetPending,
                   afterDisconnect, disposed>>

\* ws.onclose: the socket closed (remote hangup, network error, or close())
ChatOnClose(s) ==
    /\ socks[s] \in {"connecting", "open", "closing"}
    /\ socks' = [socks EXCEPT ![s] = "closed"]
    /\ chatTimers' = chatTimers + 1
    /\ chatDelay' = 3000
    /\ lastOp' = "-" /\ lastBuf' = <<>> /\ lastEvt' = NoEvt
    /\ UNCHANGED <<nonChatVars, fetches, token, storeVars, wsRef, sentFirstRef, chatSent,
                   attachments, composeVars, sidOnCur, sidSeen, resetPending,
                   afterDisconnect, disposed>>

\* mutant of ChatOnChunk: a chunk equal to the last entry is not appended again
ChatOnChunkDedup(s, content, chunkType) ==
    /\ IsOpen(s)
    /\ Len(streamChunks) < MaxChunks
    /\ LET chunk == [content |-> content, type |-> ChunkTypeOf(chunkType)]
       IN streamChunks' = IF streamChunks # <<>> /\ streamChunks[Len(streamChunks)] = chunk
                          THEN streamChunks
                          ELSE Append(streamChunks, chunk)
    /\ lastOp' = "-" /\ lastBuf' = <<>>
    /\ lastEvt' = [type |-> "chunk", content |-> content, chunk_type |-> chunkType]
    /\ UNCHANGED <<nonChatVars, fetches, token, currentSessionId, messages, streaming, hookVars,
                   attachments, composeVars, sidOnCur, sidSeen, resetPending,
                   afterDisconnect, disposed>>

\* ws.onmessage, case "chunk"
ChatOnChunk(s, content, chunkType) ==
    /\ IsOpen(s)
    /\ Len(streamChunks) < MaxChunks
    /\ streamChunks' = Append(streamChunks,
                              [content |-> content, type |-> ChunkTypeOf(chunkType)])
    /\ lastOp' = "-" /\ lastBuf' = <<>>
    /\ lastEvt' = [type |-> "chunk", content |-> content, chunk_type |-> chunkType]
    /\ UNCHANGED <<nonChatVars, fetches, token, currentSessionId, messages, streaming, hookVars,
                   attachments, composeVars, sidOnCur, sidSeen, resetPending,
                   afterDisconnect, disposed>>

\* mutant of ChatOnMalformed: the frame is treated as fatal and the socket closed
ChatOnMalformedCloses(s, raw) ==
    /\ IsOpen(s)
    /\ socks' = [socks EXCEPT ![s] = "closing"]
    /\ lastOp' = "malformed" /\ lastBuf' = <<>> /\ lastEvt' = NoEvt
    /\ UNCHANGED <<nonChatVars, fetches, token, storeVars, wsRef, sentFirstRef, chatTimers, chatDelay,
                   chatSent, attachments, composeVars, sidOnCur, sidSeen, resetPending,
                   afterDisconnect, disposed>>

\* ws.onmessage with a malformed frame: `JSON.parse(event.data)` or `data.type`
\* throws out of the handler before the switch
ChatOnMalformed(s, raw) ==
    /\ IsOpen(s)
    /\ raw \in MalformedFrames
    /\ lastOp' = "malformed" /\ lastBuf' = <<>> /\ lastEvt' = NoEvt
    /\ UNCHANGED <<nonChatVars, fetches, token, storeVars, hookVars, attachments, composeVars,
                   sidOnCur, sidSeen, resetPending, afterDisconnect, disposed>>

\* ws.onmessage, case "done"
ChatOnDone(s, sessionId) ==
    /\ IsOpen(s)
    /\ LET chunks == streamChunks
           content == FinalContent(chunks)
       IN /\ Truthy(content) => Len(messages) < MaxMessages
          /\ streaming' = FALSE
          /\ messages' = DoneMessages(chunks)
          /\ streamChunks' = <<>>
          /\ currentSessionId' = IF Truthy(sessionId) THEN sessionId
                                 ELSE currentSessionId
          /\ lastOp' = "done" /\ lastBuf' = chunks /\ lastEvt' = NoEvt
    /\ UNCHANGED <<nonChatVars, fetches, token, hookVars, attachments, composeVars, sidOnCur, sidSeen,
                   resetPending, afterDisconnect, disposed>>

\* mutant of ChatOnSessionId: sentFirstRef is not set
ChatOnSessionIdNoFlag(s, sessionId) ==
    /\ IsOpen(s)
    /\ currentSessionId' = sessionId
    /\ sidOnCur' = (sidOnCur \/ s = wsRef)
    /\ sidSeen' = TRUE
    /\ resetPending' = FALSE
    /\ lastOp' = "-" /\ lastBuf' = <<>> /\ lastEvt' = NoEvt
    /\ UNCHANGED <<nonChatVars, fetches, token, messages, streaming, streamChunks, wsRef, socks,
                   sentFirstRef, chatTimers, chatDelay, chatSent, attachments, composeVars, afterDisconnect,
                   disposed>>

\* ws.onmessage, case "session_id"
ChatOnSessionId(s, sessionId) ==
    /\ IsOpen(s)
    /\ currentSessionId' = sessionId
    /\ sentFirstRef' = TRUE
    /\ sidOnCur' = (sidOnCur \/ s = wsRef)
    /\ sidSeen' = TRUE
    /\ resetPending' = FALSE
    /\ lastOp' = "-" /\ lastBuf' = <<>> /\ lastEvt' = NoEvt
    /\ UNCHANGED <<nonChatVars, fetches, token, messages, streaming, streamChunks, wsRef, socks,
                   chatTimers, chatDelay, chatSent, attachments, composeVars, afterDisconnect,
                   disposed>>

\* mutant of ChatOnError: the buffer is not reset
ChatOnErrorKeepsBuffer(s, message) ==
    /\ IsOpen(s)
    /\ Len(messages) < MaxMessages
    /\ streaming' = FALSE
    /\ streamChunks' = streamChunks
    /\ messages' = Append(messages, Msg("assistant", "Error: " \o message, <<>>))
    /\ lastOp' = "-" /\ lastBuf' = streamChunks
    /\ lastEvt' = [type |-> "error", message |-> message]
    /\ UNCHANGED <<nonChatVars, fetches, token, currentSessionId, hookVars, attachments, composeVars, sidOnCur,
                   sidSeen, resetPending, afterDisconnect, disposed>>

\* ws.onmessage, case "error"
ChatOnError(s, message) ==
    /\ IsOpen(s)
    /\ Len(messages) < MaxMessages
    /\ streaming' = FALSE
    /\ streamChunks' = <<>>
    /\ messages' = Append(messages, Msg("assistant", "Error: " \o message, <<>>))
    /\ lastOp' = "-" /\ lastBuf' = streamChunks
    /\ lastEvt' = [type |-> "error", message |-> message]
    /\ UNCHANGED <<nonChatVars, fetches, token, currentSessionId, hookVars, attachments, composeVars, sidOnCur, sidSeen, resetPending, afterDisconnect, disposed>>

\* mutant of SendMessage: the readyState guard is missing
SendMessageUnguarded(content, atts) ==
    LET sessionId == currentSessionId
        isFirstMessage == ~Truthy(sessionId) \/ ~sentFirstRef
    IN /\ messages' = Append(messages, Msg("user", content, atts))
       /\ streaming' = TRUE
       /\ streamChunks' = <<>>
       /\ chatSent' = Append(chatSent,
              [type |-> "message", content |-> content, attachments |-> atts,
               session_id |-> sessionId, is_first_message |-> isFirstMessage])

\* sendMessage(content, attachments)
SendMessage(content, atts) ==
    IF ~IsOpen(wsRef)
    THEN UNCHANGED <<messages, streaming, streamChunks, chatSent>>
    ELSE LET sessionId == currentSessionId
             isFirstMessage == ~Truthy(sessionId) \/ ~sentFirstRef
         IN /\ messages' = Append(messages, Msg("user", content, atts))
            /\ streaming' = TRUE
            /\ streamChunks' = <<>>
            /\ chatSent' = Append(chatSent,
                   [type |-> "message", content |-> content, attachments |-> atts,
                    session_id |-> sessionId, is_first_message |-> isFirstMessage])

\* disconnect()
Disconnect ==
    /\ socks' = IF wsRef # 0 /\ socks[wsRef] \in {"connecting", "open"}
                THEN [socks EXCEPT ![wsRef] = "closing"]
                ELSE socks
    /\ wsRef' = 0
    /\ sentFirstRef' = sentFirstRef
    /\ lastOp' = "-" /\ lastBuf' = <<>> /\ lastEvt' = NoEvt
    /\ disposed' = TRUE
    /\ afterDisconnect' = (afterDisconnect \/ sidSeen)
    /\ sidOnCur' = FALSE
    /\ UNCHANGED <<nonChatVars, fetches, token, storeVars, chatTimers, chatDelay, chatSent, attachments, composeVars, sidSeen,
                   resetPending>>

\* mutant of ResetFirstMessage: the flag is left as it is
ResetFirstMessageNoop ==
    /\ sidSeen' = FALSE
    /\ resetPending' = TRUE
    /\ lastOp' = "-" /\ lastBuf' = <<>> /\ lastEvt' = NoEvt
    /\ sidOnCur' = FALSE
    /\ UNCHANGED <<nonChatVars, fetches, token, storeVars, wsRef, socks, sentFirstRef,
                   chatTimers, chatDelay, chatSent, attachments, composeVars, afterDisconnect, disposed>>

\* resetFirstMessage()
ResetFirstMessage ==
    /\ sentFirstRef' = FALSE
    /\ sidSeen' = FALSE
    /\ resetPending' = TRUE
    /\ lastOp' = "-" /\ lastBuf' = <<>> /\ lastEvt' = NoEvt
    /\ sidOnCur' = FALSE
    /\ UNCHANGED <<nonChatVars, fetches, token, storeVars, wsRef, socks, chatTimers, chatDelay, chatSent,
                   attachments, composeVars, afterDisconnect, disposed>>

(***************************************************************************)
(* InputArea.handleSend, wired to the hook's sendMessage through onSend.   *)
(***************************************************************************)
\* mutant of HandleSend: the `if (streaming) return` gate is missing
HandleSendUngated(text) ==
    IF text = "" /\ Len(attachments) = 0
    THEN /\ lastOp' = "handleSend.empty" /\ lastBuf' = <<>> /\ lastEvt' = NoEvt
         /\ UNCHANGED <<nonChatVars, fetches, token, storeVars, hookVars, attachments, composeVars, sidOnCur,
                        sidSeen, resetPending, afterDisconnect, disposed>>
    ELSE /\ IsOpen(wsRef) => Len(chatSent) < MaxSubmits /\ Len(messages) < MaxMessages
         /\ SendMessage(text, attachments)
         /\ attachments' = <<>>
         /\ UNCHANGED composeVars
         /\ resetPending' = (resetPending /\ ~IsOpen(wsRef))
         /\ afterDisconnect' = (afterDisconnect /\ ~IsOpen(wsRef))
         /\ lastOp' = IF IsOpen(wsRef) THEN "handleSend.sent" ELSE "handleSend.dropped"
         /\ lastBuf' = <<>> /\ lastEvt' = NoEvt
         /\ UNCHANGED <<nonChatVars, fetches, token, currentSessionId, wsRef, sentFirstRef, socks,
                        chatTimers, chatDelay, sidOnCur, sidSeen, disposed>>

HandleSend(text) ==
    IF text = "" /\ Len(attachments) = 0
    THEN /\ lastOp' = "handleSend.empty" /\ lastBuf' = <<>> /\ lastEvt' = NoEvt
         /\ UNCHANGED <<nonChatVars, fetches, token, storeVars, hookVars, attachments, composeVars, sidOnCur,
                        sidSeen, resetPending, afterDisconnect, disposed>>
    ELSE IF streaming
    THEN /\ lastOp' = "handleSend.streaming" /\ lastBuf' = <<>> /\ lastEvt' = NoEvt
         /\ UNCHANGED <<nonChatVars, fetches, token, storeVars, hookVars, attachments, composeVars, sidOnCur,
                        sidSeen, resetPending, afterDisconnect, disposed>>
    ELSE /\ IsOpen(wsRef) => Len(chatSent) < MaxSubmits /\ Len(messages) < MaxMessages
         /\ SendMessage(text, attachments)
         /\ attachments' = <<>>
         /\ UNCHANGED composeVars
         /\ resetPending' = (resetPending /\ ~IsOpen(wsRef))
         /\ afterDisconnect' = (afterDisconnect /\ ~IsOpen(wsRef))
         /\ lastOp' = IF IsOpen(wsRef) THEN "handleSend.sent" ELSE "handleSend.dropped"
         /\ lastBuf' = <<>> /\ lastEvt' = NoEvt
         /\ UNCHANGED <<nonChatVars, fetches, token, currentSessionId, wsRef, sentFirstRef, socks,
                        chatTimers, chatDelay, sidOnCur, sidSeen, disposed>>

(***************************************************************************)
(* InputArea: uploads into the pending attachment list.                    *)
(***************************************************************************)
\* the notice that setUploadError receives for a file
FailureNotice(file) == "upload failed: " \o file

\* { filename: result.filename, path: result.path } of a resolved upload
Ref(file) == [filename |-> file, path |-> PathOf(file)]

\* the for loop goes on after the file awaited: the next file's upload is
\* called, or the loop ends with setUploading(false)
NextInBatch ==
    /\ upBatch' = Tail(upBatch)
    /\ IF Tail(upBatch) # <<>>
       THEN /\ chatCalls' = [chatCalls EXCEPT ![upBatch[2]] = @ + 1]
            /\ chatUploading' = chatUploading
       ELSE /\ chatCalls' = chatCalls
            /\ chatUploading' = FALSE

\* handleFileUpload(files) up to the first `await api.uploadFile(file)`; one
\* batch is uploaded at a time
ChatHandleFileUpload(files) ==
    /\ upBatch = <<>>
    /\ \A i \in 1..Len(files) : chatCalls[files[i]] = 0
    /\ upBatch' = files
    /\ chatCalls' = [chatCalls EXCEPT ![files[1]] = @ + 1]
    /\ chatUploading' = TRUE
    /\ uploadError' = Null
    /\ lastOp' = "-" /\ lastBuf' = <<>> /\ lastEvt' = NoEvt
    /\ UNCHANGED <<nonChatVars, fetches, token, storeVars, hookVars, attachments, errTimers,
                   sidOnCur, sidSeen, resetPending, afterDisconnect, disposed>>

\* handleFileUpload after an await, the upload having succeeded
ChatUploadResolved ==
    /\ upBatch # <<>>
    /\ attachments' = Append(attachments, Ref(upBatch[1]))
    /\ NextInBatch
    /\ lastOp' = "-" /\ lastBuf' = <<>> /\ lastEvt' = NoEvt
    /\ UNCHANGED <<nonChatVars, fetches, token, storeVars, hookVars, uploadError, errTimers,
                   sidOnCur, sidSeen, resetPending, afterDisconnect, disposed>>

\* handleFileUpload after an await, the upload having failed (a 401 answer,
\* which also reloads the page, is not covered)
ChatUploadRejected ==
    /\ upBatch # <<>>
    /\ uploadError' = FailureNotice(upBatch[1])
    /\ errTimers' = errTimers + 1
    /\ NextInBatch
    /\ lastOp' = "-" /\ lastBuf' = <<>> /\ lastEvt' = NoEvt
    /\ UNCHANGED <<nonChatVars, fetches, token, storeVars, hookVars, attachments,
                   sidOnCur, sidSeen, resetPending, afterDisconnect, disposed>>

\* a setTimeout(() => setUploadError(null), 3000) fires
ChatErrTimerFire ==
    /\ errTimers > 0
    /\ errTimers' = errTimers - 1
    /\ uploadError' = Null
    /\ lastOp' = "-" /\ lastBuf' = <<>> /\ lastEvt' = NoEvt
    /\ UNCHANGED <<nonChatVars, fetches, token, storeVars, hookVars, attachments, upBatch,
                   chatCalls, chatUploading,
                   sidOnCur, sidSeen, resetPending, afterDisconnect, disposed>>

\* removeAttachment(index)
RemoveAttachment(index) ==
    /\ index \in 1..Len(attachments)
    /\ attachments' = [i \in 1..(Len(attachments) - 1) |->
                          IF i < index THEN attachments[i] ELSE attachments[i + 1]]
    /\ lastOp' = "removeAttachment" /\ lastBuf' = <<>> /\ lastEvt' = NoEvt
    /\ UNCHANGED <<nonChatVars, fetches, token, storeVars, hookVars, composeVars,
                   sidOnCur, sidSeen, resetPending, afterDisconnect, disposed>>

(***************************************************************************)
(* SessionList.selectSession / newSession; authStore login / logout on     *)
(* localStorage.                                                           *)
(***************************************************************************)
ListedSessions == {"s1", "s2"}   \* sessions of the side bar

\* data.messages that GET /sessions/<id> answers with
ServerMessages(id) == <<Msg("user", "in " \o id, <<>>)>>

\* selectSession(id) up to its `await api.get`; one fetch per session at a time
SelectSession(id) ==
    /\ id \notin fetches
    /\ currentSessionId' = id
    /\ fetches' = fetches \cup {id}
    /\ lastOp' = "selectSession" /\ lastBuf' = <<>> /\ lastEvt' = NoEvt
    /\ UNCHANGED <<nonChatVars, token, messages, streaming, streamChunks, hookVars, attachments,
                   composeVars, sidOnCur, sidSeen, resetPending, afterDisconnect, disposed>>

\* selectSession(id) after the await: setMessages(data.messages || [])
FetchResolved(id) ==
    /\ id \in fetches
    /\ fetches' = fetches \ {id}
    /\ messages' = ServerMessages(id)
    /\ lastOp' = "fetch.resolved" /\ lastBuf' = <<>> /\ lastEvt' = NoEvt
    /\ UNCHANGED <<nonChatVars, token, currentSessionId, streaming, streamChunks, hookVars,
                   attachments, composeVars, sidOnCur, sidSeen, resetPending,
                   afterDisconnect, disposed>>

\* selectSession(id) after the await, the request having failed: only logged
FetchRejected(id) ==
    /\ id \in fetches
    /\ fetches' = fetches \ {id}
    /\ lastOp' = "fetch.rejected" /\ lastBuf' = <<>> /\ lastEvt' = NoEvt
    /\ UNCHANGED <<nonChatVars, token, storeVars, hookVars, attachments, composeVars,
                   sidOnCur, sidSeen, resetPending, afterDisconnect, disposed>>

NewSession ==
    /\ currentSessionId' = Null
    /\ messages' = <<>>
    /\ lastOp' = "-" /\ lastBuf' = <<>> /\ lastEvt' = NoEvt
    /\ UNCHANGED <<nonChatVars, fetches, token, streaming, streamChunks, hookVars, attachments, composeVars, sidOnCur, sidSeen, resetPending, afterDisconnect, disposed>>

Logout ==
    /\ token
    /\ token' = FALSE
    /\ lastOp' = "-" /\ lastBuf' = <<>> /\ lastEvt' = NoEvt
    /\ UNCHANGED <<nonChatVars, fetches, storeVars, hookVars, attachments, composeVars, sidOnCur, sidSeen,
                   resetPending, afterDisconnect, disposed>>

Login ==
    /\ ~token
    /\ token' = TRUE
    /\ lastOp' = "-" /\ lastBuf' = <<>> /\ lastEvt' = NoEvt
    /\ UNCHANGED <<nonChatVars, fetches, storeVars, hookVars, attachments, composeVars, sidOnCur, sidSeen,
                   resetPending, afterDisconnect, disposed>>

(***************************************************************************)
(* ClaudeTerminal: the PTY terminal's mount effect, connect and handlers.  *)
(***************************************************************************)
RECONNECT_DELAY == 3000
FitDelays == {100, 500, 1500}

PtyNumSockets == Cardinality({s \in PtySockets : ptySocks[s] # "unused"})

\* JSON.stringify({ type: "resize", cols: term.cols, rows: term.rows }) sent on ws
ResizeFrame(ws, size) ==
    [sock |-> ws, kind |-> "text", type |-> "resize", cols |-> size[1], rows |-> size[2]]

DisconnectedLine == "[Disconnected. Reconnecting...]"

\* mutant of PtyConnect: only the token is checked, as in the chat hook
PtyConnectNoTermCheck(term) ==
    IF ~token
    THEN UNCHANGED <<status, ptySocks, ptyWsRef>>
    ELSE /\ status' = "connecting"
         /\ ptySocks' = [ptySocks EXCEPT ![PtyNumSockets + 1] = "connecting"]
         /\ ptyWsRef' = PtyNumSockets + 1

\* mutant of PtyConnect: the token is not checked
PtyConnectNoTokenCheck(term) ==
    IF ~term
    THEN UNCHANGED <<status, ptySocks, ptyWsRef>>
    ELSE /\ status' = "connecting"
         /\ ptySocks' = [ptySocks EXCEPT ![PtyNumSockets + 1] = "connecting"]
         /\ ptyWsRef' = PtyNumSockets + 1

\* body of connect(), `term` being what termRef.current holds when it runs
PtyConnect(term) ==
    IF ~token \/ ~term
    THEN UNCHANGED <<status, ptySocks, ptyWsRef>>
    ELSE /\ status' = "connecting"
         /\ ptySocks' = [ptySocks EXCEPT ![PtyNumSockets + 1] = "connecting"]
         /\ ptyWsRef' = PtyNumSockets + 1

PtyCanConnect(term) == (token /\ term) => PtyNumSockets < MaxPtySockets

\* the mount effect: terminal created, first doFit, fit timers armed, connect(),
\* ResizeObserver attached
PtyMount ==
    /\ ptyPhase = "unmounted"
    /\ PtyCanConnect(TRUE)
    /\ termRef' = TRUE
    /\ \E size \in Sizes : termSize' = size
    /\ fitTimers' = FitDelays
    /\ PtyConnect(TRUE)
    /\ observing' = TRUE
    /\ ptyPhase' = "mounted"
    /\ ptyLast' = "mount"
    /\ UNCHANGED <<reconnectTimer, ptyDelay, ptyTimers, ptySent, termOut>>
    /\ UNCHANGED <<nonPtyVars, token, uploadVars, ptyIn>>

\* mutant of PtyCleanup: the fit timers and the observer are left alone
PtyCleanupLeavesTimers ==
    /\ ptyPhase = "mounted"
    /\ UNCHANGED <<fitTimers, observing>>
    /\ ptyTimers' = IF reconnectTimer # 0 THEN ptyTimers \ {reconnectTimer}
                    ELSE ptyTimers
    /\ ptySocks' = IF ptyWsRef # 0 /\ ptySocks[ptyWsRef] \in {"connecting", "open"}
                   THEN [ptySocks EXCEPT ![ptyWsRef] = "closing"]
                   ELSE ptySocks
    /\ ptyWsRef' = 0
    /\ termRef' = FALSE
    /\ ptyPhase' = "tornDown"
    /\ ptyLast' = "cleanup"
    /\ UNCHANGED <<status, termSize, reconnectTimer, ptyDelay, ptySent, termOut>>
    /\ UNCHANGED <<nonPtyVars, token, uploadVars, ptyIn>>

\* the mount effect's cleanup
PtyCleanup ==
    /\ ptyPhase = "mounted"
    /\ fitTimers' = {}
    /\ observing' = FALSE
    /\ ptyTimers' = IF reconnectTimer # 0 THEN ptyTimers \ {reconnectTimer}
                    ELSE ptyTimers
    /\ ptySocks' = IF ptyWsRef # 0 /\ ptySocks[ptyWsRef] \in {"connecting", "open"}
                   THEN [ptySocks EXCEPT ![ptyWsRef] = "closing"]
                   ELSE ptySocks
    /\ ptyWsRef' = 0
    /\ termRef' = FALSE
    /\ ptyPhase' = "tornDown"
    /\ ptyLast' = "cleanup"
    /\ UNCHANGED <<status, termSize, reconnectTimer, ptyDelay, ptySent, termOut>>
    /\ UNCHANGED <<nonPtyVars, token, uploadVars, ptyIn>>

\* mutant of PtyOnOpen: no resize frame is sent on open
PtyOnOpenNoHandshake(s) ==
    /\ ptySocks[s] = "connecting"
    /\ ptySocks' = [ptySocks EXCEPT ![s] = "open"]
    /\ status' = "connected"
    /\ ptySent' = ptySent
    /\ ptyLast' = "open"
    /\ UNCHANGED <<termRef, termSize, ptyWsRef, reconnectTimer, ptyDelay, ptyTimers,
                   fitTimers, observing, termOut, ptyPhase>>
    /\ UNCHANGED <<nonPtyVars, token, uploadVars, ptyIn>>

\* ws.onopen
PtyOnOpen(s) ==
    /\ ptySocks[s] = "connecting"
    /\ ptySocks' = [ptySocks EXCEPT ![s] = "open"]
    /\ status' = "connected"
    /\ ptySent' = IF termRef THEN Append(ptySent, ResizeFrame(s, termSize))
                  ELSE ptySent
    /\ ptyLast' = "open"
    /\ UNCHANGED <<termRef, termSize, ptyWsRef, reconnectTimer, ptyDelay, ptyTimers, fitTimers,
                   observing, termOut, ptyPhase>>
    /\ UNCHANGED <<nonPtyVars, token, uploadVars, ptyIn>>

\* mutant of PtyOnClose: the delay grows with the number of sockets lost so far
PtyOnCloseBackoff(s) ==
    /\ ptySocks[s] \in {"connecting", "open", "closing"}
    /\ ptySocks' = [ptySocks EXCEPT ![s] = "closed"]
    /\ status' = "disconnected"
    /\ termOut' = IF termRef THEN Append(termOut, DisconnectedLine) ELSE termOut
    /\ reconnectTimer' = s
    /\ ptyDelay' = RECONNECT_DELAY
                       * (1 + Cardinality({x \in PtySockets : ptySocks[x] = "closed"}))
    /\ ptyTimers' = ptyTimers \cup {s}
    /\ ptyLast' = "close"
    /\ UNCHANGED <<termRef, termSize, ptyWsRef, fitTimers, observing, ptySent,
                   ptyPhase>>
    /\ UNCHANGED <<nonPtyVars, token, uploadVars, ptyIn>>

\* ws.onclose; the timer it arms is identified by the socket that closed
PtyOnClose(s) ==
    /\ ptySocks[s] \in {"connecting", "open", "closing"}
    /\ ptySocks' = [ptySocks EXCEPT ![s] = "closed"]
    /\ status' = "disconnected"
    /\ termOut' = IF termRef THEN Append(termOut, DisconnectedLine) ELSE termOut
    /\ reconnectTimer' = s
    /\ ptyDelay' = RECONNECT_DELAY
    /\ ptyTimers' = ptyTimers \cup {s}
    /\ ptyLast' = "close"
    /\ UNCHANGED <<termRef, termSize, ptyWsRef, fitTimers, observing, ptySent,
                   ptyPhase>>
    /\ UNCHANGED <<nonPtyVars, token, uploadVars, ptyIn>>

\* frames the remote side sends: terminal output bytes, and a text frame whose
\* text reads like a control message
InFrames == {[kind |-> "binary", data |-> "x"],
             [kind |-> "text", data |-> "{type:resize}"]}

\* mutant of PtyOnMessage: a frame equal to the one before it is not written
PtyOnMessageDedup(s, frame) ==
    /\ ptySocks[s] \in {"open", "closing"}
    /\ Len(ptyIn) < MaxInbound
    /\ ptyIn' = Append(ptyIn, [kind |-> frame.kind, data |-> frame.data, term |-> termRef])
    /\ termOut' = IF termRef /\ ~(ptyIn # <<>> /\ ptyIn[Len(ptyIn)].data = frame.data)
                  THEN Append(termOut, frame.data)
                  ELSE termOut
    /\ ptyLast' = "message"
    /\ UNCHANGED <<status, termRef, termSize, ptyWsRef, ptySocks, reconnectTimer, ptyDelay,
                   ptyTimers, fitTimers, observing, ptySent, ptyPhase>>
    /\ UNCHANGED <<nonPtyVars, token, uploadVars>>

\* ws.onmessage of socket s: term.write(new Uint8Array(event.data)) for an
\* ArrayBuffer, term.write(event.data) for a string, nothing without a terminal
PtyOnMessage(s, frame) ==
    /\ ptySocks[s] \in {"open", "closing"}
    /\ Len(ptyIn) < MaxInbound
    /\ ptyIn' = Append(ptyIn, [kind |-> frame.kind, data |-> frame.data, term |-> termRef])
    /\ termOut' = IF termRef THEN Append(termOut, frame.data) ELSE termOut
    /\ ptyLast' = "message"
    /\ UNCHANGED <<status, termRef, termSize, ptyWsRef, ptySocks, reconnectTimer, ptyDelay,
                   ptyTimers, fitTimers, observing, ptySent, ptyPhase>>
    /\ UNCHANGED <<nonPtyVars, token, uploadVars>>

\* mutant of PtyOnError: the handler reconnects at once instead of closing
PtyOnErrorReconnects(s) ==
    /\ ptySocks[s] \in {"connecting", "open"}
    /\ ptySocks' = [ptySocks EXCEPT ![s] = "closing"]
    /\ status' = "connecting"
    /\ ptyLast' = "error"
    /\ UNCHANGED <<termRef, termSize, ptyWsRef, reconnectTimer, ptyDelay, ptyTimers,
                   fitTimers, observing, ptySent, termOut, ptyPhase>>
    /\ UNCHANGED <<nonPtyVars, token, uploadVars, ptyIn>>

\* ws.onerror: ws.close()
PtyOnError(s) ==
    /\ ptySocks[s] \in {"connecting", "open"}
    /\ ptySocks' = [ptySocks EXCEPT ![s] = "closing"]
    /\ ptyLast' = "error"
    /\ UNCHANGED <<status, termRef, termSize, ptyWsRef, reconnectTimer, ptyDelay, ptyTimers,
                   fitTimers, observing, ptySent, termOut, ptyPhase>>
    /\ UNCHANGED <<nonPtyVars, token, uploadVars, ptyIn>>

\* a setTimeout(connect, RECONNECT_DELAY) armed by onclose fires
PtyTimerFire(id) ==
    /\ id \in ptyTimers
    /\ PtyCanConnect(termRef)
    /\ ptyTimers' = ptyTimers \ {id}
    /\ PtyConnect(termRef)
    /\ ptyLast' = "timer"
    /\ UNCHANGED <<termRef, termSize, reconnectTimer, ptyDelay, fitTimers, observing, ptySent,
                   termOut, ptyPhase>>
    /\ UNCHANGED <<nonPtyVars, token, uploadVars, ptyIn>>

(***************************************************************************)
(* ClaudeTerminal: what the terminal writes to its socket.                 *)
(***************************************************************************)
Keys == {"k"}                    \* keystrokes, escape sequences, commands
MobileTexts == {"", "m"}         \* mobileInput.trim()

\* ws.send(payload) on socket ws: a string goes out as a text frame, an
\* ArrayBuffer as a binary frame
DataFrame(ws, kind, payload) ==
    [sock |-> ws, kind |-> kind, type |-> "data", payload |-> payload]

UploadFailedLine(file) == "[Upload failed: " \o file \o "]"

\* mutant of PtyWrite: only the presence of a socket is checked
PtyWriteUnguarded(frame) ==
    IF ptyWsRef # 0
    THEN /\ Len(ptySent) < MaxPtyFrames
         /\ ptySent' = Append(ptySent, [frame EXCEPT !.sock = ptyWsRef])
         /\ ptyLast' = "write"
    ELSE /\ ptySent' = ptySent
         /\ ptyLast' = "write.skipped"

\* const ws = wsRef.current; if (ws && ws.readyState === WebSocket.OPEN) ws.send(..)
PtyWrite(frame) ==
    IF ptyWsRef # 0 /\ ptySocks[ptyWsRef] = "open"
    THEN /\ Len(ptySent) < MaxPtyFrames
         /\ ptySent' = Append(ptySent, [frame EXCEPT !.sock = ptyWsRef])
         /\ ptyLast' = "write"
    ELSE /\ ptySent' = ptySent
         /\ ptyLast' = "write.skipped"

\* sendCommand(cmd) of the imperative handle
PtySendCommand(cmd) ==
    /\ ptyPhase = "mounted"
    /\ PtyWrite(DataFrame(0, "text", cmd))
    /\ UNCHANGED <<status, termRef, termSize, ptyWsRef, ptySocks, reconnectTimer,
                   ptyDelay, ptyTimers, fitTimers, observing, termOut, ptyPhase>>
    /\ UNCHANGED <<nonPtyVars, token, uploadVars, ptyIn>>

\* sendKey(seq)
PtySendKey(seq) ==
    /\ ptyPhase = "mounted"
    /\ PtyWrite(DataFrame(0, "text", seq))
    /\ UNCHANGED <<status, termRef, termSize, ptyWsRef, ptySocks, reconnectTimer,
                   ptyDelay, ptyTimers, fitTimers, observing, termOut, ptyPhase>>
    /\ UNCHANGED <<nonPtyVars, token, uploadVars, ptyIn>>

\* handleMobileSend(), `text` being mobileInput.trim()
PtyHandleMobileSend(text) ==
    /\ ptyPhase = "mounted"
    /\ IF text = ""
       THEN ptySent' = ptySent /\ ptyLast' = "write.skipped"
       ELSE PtyWrite(DataFrame(0, "text", text \o "\n"))
    /\ UNCHANGED <<status, termRef, termSize, ptyWsRef, ptySocks, reconnectTimer,
                   ptyDelay, ptyTimers, fitTimers, observing, termOut, ptyPhase>>
    /\ UNCHANGED <<nonPtyVars, token, uploadVars, ptyIn>>

\* term.onData
PtyOnData(data) ==
    /\ ptyPhase = "mounted"
    /\ PtyWrite(DataFrame(0, "text", data))
    /\ UNCHANGED <<status, termRef, termSize, ptyWsRef, ptySocks, reconnectTimer,
                   ptyDelay, ptyTimers, fitTimers, observing, termOut, ptyPhase>>
    /\ UNCHANGED <<nonPtyVars, token, uploadVars, ptyIn>>

\* term.onBinary
PtyOnBinary(data) ==
    /\ ptyPhase = "mounted"
    /\ PtyWrite(DataFrame(0, "binary", data))
    /\ UNCHANGED <<status, termRef, termSize, ptyWsRef, ptySocks, reconnectTimer,
                   ptyDelay, ptyTimers, fitTimers, observing, termOut, ptyPhase>>
    /\ UNCHANGED <<nonPtyVars, token, uploadVars, ptyIn>>

\* handleFiles(files): handleFileUpload(file) for each file, none awaited; each
\* runs up to its `await api.uploadFile(file)`
PtyHandleFiles(files) ==
    /\ ptyPhase = "mounted"
    /\ \A i \in 1..Len(files) : ptyCalls[files[i]] = 0
    /\ Cardinality(uploads) + Len(files) <= MaxUploads
    /\ uploads' = uploads \cup {files[i] : i \in 1..Len(files)}
    /\ ptyCalls' = [f \in Files |->
                       ptyCalls[f] + Cardinality({i \in 1..Len(files) : files[i] = f})]
    /\ uploading' = TRUE
    /\ uploadInfo' = files[Len(files)]
    /\ ptyLast' = "upload.start"
    /\ UNCHANGED <<status, termRef, termSize, ptyWsRef, ptySocks, reconnectTimer,
                   ptyDelay, ptyTimers, fitTimers, observing, ptySent, termOut,
                   ptyPhase>>
    /\ UNCHANGED <<nonPtyVars, token, ptyIn>>

\* mutant of PtyUploadResolved: the path is sent with a newline, as a command
PtyUploadResolvedNewline(file) ==
    /\ file \in uploads
    /\ uploads' = uploads \ {file}
    /\ PtyWrite(DataFrame(0, "text", PathOf(file) \o "\n"))
    /\ uploading' = FALSE
    /\ uploadInfo' = ""
    /\ UNCHANGED <<status, termRef, termSize, ptyWsRef, ptySocks, reconnectTimer,
                   ptyDelay, ptyTimers, fitTimers, observing, termOut, ptyPhase>>
    /\ UNCHANGED <<nonPtyVars, token, ptyCalls, ptyIn>>

\* handleFileUpload(file) after the await, the upload having succeeded
PtyUploadResolved(file) ==
    /\ file \in uploads
    /\ uploads' = uploads \ {file}
    /\ PtyWrite(DataFrame(0, "text", PathOf(file)))
    /\ uploading' = FALSE
    /\ uploadInfo' = ""
    /\ UNCHANGED <<status, termRef, termSize, ptyWsRef, ptySocks, reconnectTimer,
                   ptyDelay, ptyTimers, fitTimers, observing, termOut, ptyPhase>>
    /\ UNCHANGED <<nonPtyVars, token, ptyCalls, ptyIn>>

\* mutant of PtyUploadRejected: the upload is started again
PtyUploadRejectedRetries(file) ==
    /\ file \in uploads
    /\ uploads' = uploads
    /\ ptyCalls' = [ptyCalls EXCEPT ![file] = @ + 1]
    /\ termOut' = IF termRef THEN Append(termOut, UploadFailedLine(file)) ELSE termOut
    /\ uploading' = TRUE
    /\ uploadInfo' = file
    /\ ptyLast' = "upload.failed"
    /\ UNCHANGED <<status, termRef, termSize, ptyWsRef, ptySocks, reconnectTimer,
                   ptyDelay, ptyTimers, fitTimers, observing, ptySent, ptyPhase>>
    /\ UNCHANGED <<nonPtyVars, token, ptyIn>>

\* handleFileUpload(file) after the await, the upload having failed (a 401
\* answer, which also reloads the page, is not covered)
PtyUploadRejected(file) ==
    /\ file \in uploads
    /\ uploads' = uploads \ {file}
    /\ termOut' = IF termRef THEN Append(termOut, UploadFailedLine(file)) ELSE termOut
    /\ uploading' = FALSE
    /\ uploadInfo' = ""
    /\ ptyLast' = "upload.failed"
    /\ UNCHANGED <<status, termRef, termSize, ptyWsRef, ptySocks, reconnectTimer,
                   ptyDelay, ptyTimers, fitTimers, observing, ptySent, ptyPhase>>
    /\ UNCHANGED <<nonPtyVars, token, ptyCalls, ptyIn>>

\* mutant of DoFit: the frame carries the size read before fitAddon.fit()
DoFitStale(size) ==
    /\ termSize' = size
    /\ IF size[1] # 0 /\ size[2] # 0
       THEN PtyWrite(ResizeFrame(0, termSize))
       ELSE ptySent' = ptySent /\ ptyLast' = "write.skipped"

\* doFit / the ResizeObserver callback: fitAddon.fit() sets the size, then the
\* resize frame goes out if the socket is open and cols and rows are non-zero
DoFit(size) ==
    /\ termSize' = size
    /\ IF size[1] # 0 /\ size[2] # 0
       THEN PtyWrite(ResizeFrame(0, size))
       ELSE ptySent' = ptySent /\ ptyLast' = "write.skipped"

\* one of setTimeout(doFit, 100 | 500 | 1500) fires
PtyFitTimerFire(delay, size) ==
    /\ delay \in fitTimers
    /\ fitTimers' = fitTimers \ {delay}
    /\ DoFit(size)
    /\ UNCHANGED <<status, termRef, ptyWsRef, ptySocks, reconnectTimer, ptyDelay,
                   ptyTimers, observing, termOut, ptyPhase>>
    /\ UNCHANGED <<nonPtyVars, token, uploadVars, ptyIn>>

\* the ResizeObserver reports a geometry change
PtyOnResize(size) ==
    /\ observing
    /\ DoFit(size)
    /\ UNCHANGED <<status, termRef, ptyWsRef, ptySocks, reconnectTimer, ptyDelay,
                   ptyTimers, fitTimers, observing, termOut, ptyPhase>>
    /\ UNCHANGED <<nonPtyVars, token, uploadVars, ptyIn>>

(***************************************************************************)
(* TerminalPanel: the command runner's connect, handlers and mount effect. *)
(***************************************************************************)
TpNumSockets == Cardinality({s \in TpSockets : tpSocks[s] # "unused"})

\* body of connect(): a new socket replaces wsRef.current, unless no token
TpConnect ==
    IF ~token
    THEN UNCHANGED <<tpSocks, tpWsRef>>
    ELSE /\ tpSocks' = [tpSocks EXCEPT ![TpNumSockets + 1] = "connecting"]
         /\ tpWsRef' = TpNumSockets + 1

TpCanConnect == token => TpNumSockets < MaxTpSockets

\* the mount effect: connect()
TpMount ==
    /\ tpPhase = "unmounted"
    /\ TpCanConnect
    /\ TpConnect
    /\ tpPhase' = "mounted"
    /\ tpLast' = "mount"
    /\ UNCHANGED <<nonTpVars, token, tpTimers, tpRunning, tpSent, tpViewVars>>

\* the mount effect's cleanup: wsRef.current?.close(); wsRef.current = null
TpCleanup ==
    /\ tpPhase = "mounted"
    /\ tpSocks' = IF tpWsRef # 0 /\ tpSocks[tpWsRef] \in {"connecting", "open"}
                  THEN [tpSocks EXCEPT ![tpWsRef] = "closing"]
                  ELSE tpSocks
    /\ tpWsRef' = 0
    /\ tpPhase' = "tornDown"
    /\ tpLast' = "cleanup"
    /\ UNCHANGED <<nonTpVars, token, tpTimers, tpRunning, tpSent, tpViewVars>>

\* ws.onopen
TpOnOpen(s) ==
    /\ tpSocks[s] = "connecting"
    /\ tpSocks' = [tpSocks EXCEPT ![s] = "open"]
    /\ tpLast' = "open"
    /\ UNCHANGED <<nonTpVars, token, tpWsRef, tpTimers, tpRunning, tpSent, tpViewVars, tpPhase>>

\* ws.onclose: setTimeout(connect, 3000)
TpOnClose(s) ==
    /\ tpSocks[s] \in {"connecting", "open", "closing"}
    /\ tpSocks' = [tpSocks EXCEPT ![s] = "closed"]
    /\ tpTimers' = tpTimers + 1
    /\ tpLast' = "close"
    /\ UNCHANGED <<nonTpVars, token, tpWsRef, tpRunning, tpSent, tpViewVars, tpPhase>>

\* a setTimeout(connect, 3000) armed by onclose fires
TpTimerFire ==
    /\ tpTimers > 0
    /\ TpCanConnect
    /\ tpTimers' = tpTimers - 1
    /\ TpConnect
    /\ tpLast' = "timer"
    /\ UNCHANGED <<nonTpVars, token, tpRunning, tpSent, tpViewVars, tpPhase>>

Cwds == {"/root", "/tmp"}        \* working directories the remote side reports
OutContents == {"o"}             \* data.content of an output event

\* shortPath(p), on the directories above and the initial "~"
ShortPath(p) == IF p = "/root" THEN "~" ELSE p

Line(type, content) == [type |-> type, content |-> content]

IsOutputLine(line) == line.type = "output"

\* ws.onmessage, case "prompt"
TpOnPrompt(s, cwd) ==
    /\ tpSocks[s] = "open"
    /\ tpCwd' = cwd
    /\ tpLast' = "prompt"
    /\ UNCHANGED <<nonTpVars, token, tpWsRef, tpSocks, tpTimers, tpRunning, tpSent, tpLines,
                   tpPhase>>

\* ws.onmessage, case "output"
TpOnOutput(s, content) ==
    /\ tpSocks[s] = "open"
    /\ Len(SelectSeq(tpLines, IsOutputLine)) < MaxTpLines
    /\ tpLines' = Append(tpLines, Line("output", content))
    /\ tpLast' = "output"
    /\ UNCHANGED <<nonTpVars, token, tpWsRef, tpSocks, tpTimers, tpRunning, tpSent, tpCwd,
                   tpPhase>>

\* ws.onmessage with a malformed frame: `JSON.parse(event.data)` or `data.type`
\* throws out of the handler before any state is set
TpOnMalformed(s, raw) ==
    /\ tpSocks[s] = "open"
    /\ raw \in MalformedFrames
    /\ tpLast' = "malformed"
    /\ UNCHANGED <<nonTpVars, token, tpWsRef, tpSocks, tpTimers, tpRunning, tpSent,
                   tpViewVars, tpPhase>>

\* ws.onmessage, case "exit"
TpOnExit(s, cwd) ==
    /\ tpSocks[s] = "open"
    /\ tpRunning' = FALSE
    /\ tpCwd' = IF Truthy(cwd) THEN cwd ELSE tpCwd
    /\ tpLast' = "exit"
    /\ UNCHANGED <<nonTpVars, token, tpWsRef, tpSocks, tpTimers, tpSent, tpLines, tpPhase>>

\* sendCommand(cmd)
TpSendCommand(cmd) ==
    /\ tpPhase = "mounted"
    /\ IF tpWsRef = 0 \/ tpSocks[tpWsRef] # "open"
       THEN tpLast' = "sendCommand.dropped" /\ UNCHANGED <<tpRunning, tpSent, tpLines>>
       ELSE IF cmd = ""
       THEN tpLast' = "sendCommand.empty" /\ UNCHANGED <<tpRunning, tpSent, tpLines>>
       ELSE IF cmd = "clear"
       THEN tpLast' = "sendCommand.clear" /\ tpLines' = <<>>
            /\ UNCHANGED <<tpRunning, tpSent>>
       ELSE /\ Len(tpSent) < MaxTpFrames
            /\ tpLines' = tpLines \o <<Line("prompt", ShortPath(tpCwd) \o " $"),
                                        Line("input", cmd)>>
            /\ tpRunning' = TRUE
            /\ tpSent' = Append(tpSent, [type |-> "command", content |-> cmd])
            /\ tpLast' = "sendCommand.sent"
    /\ UNCHANGED <<nonTpVars, token, tpWsRef, tpSocks, tpTimers, tpCwd, tpPhase>>

(***************************************************************************)
(* Specifications.                                                         *)
(***************************************************************************)
\* the chat hook and its first-message flag: connections come and go, the
\* remote side binds sessions and ends exchanges, the user submits
NextFlag ==
    \/ wsRef = 0 /\ ChatConnect
    \/ ChatTimerFire
    \/ \E s \in Sockets : ChatOnOpen(s)
    \/ \E s \in Sockets : ChatOnClose(s)
    \/ \E s \in Sockets, sid \in SessionIds \cup {Null} : ChatOnDone(s, sid)
    \/ \E s \in Sockets, sid \in SessionIds : ChatOnSessionId(s, sid)
    \/ wsRef # 0 /\ Disconnect
    \/ ResetFirstMessage
    \/ \E text \in Texts : HandleSend(text)
    \/ NewSession

SpecFlag == Init /\ [][NextFlag]_vars

\* the chat connection alone: sockets, reconnect timers, the stored token
NextConn ==
    \/ ChatConnect
    \/ ChatTimerFire
    \/ \E s \in Sockets : ChatOnOpen(s)
    \/ \E s \in Sockets : ChatOnClose(s)
    \/ Disconnect
    \/ Logout
    \/ Login

SpecConn == Init /\ [][NextConn]_vars

\* the PTY terminal from mount to teardown and after
NextPty ==
    \/ PtyMount
    \/ PtyCleanup
    \/ \E s \in PtySockets : PtyOnOpen(s)
    \/ \E s \in PtySockets : PtyOnClose(s)
    \/ \E s \in PtySockets : PtyOnError(s)
    \/ \E id \in PtySockets : PtyTimerFire(id)
    \/ Logout
    \/ Login

SpecPty == Init /\ [][NextPty]_vars

\* one chat connection and the remote side answering each submission with a
\* stream of chunks closed by done: the stream aggregator
NextAgg ==
    \/ wsRef = 0 /\ ChatConnect
    \/ \E s \in Sockets : ChatOnOpen(s)
    \/ \E s \in Sockets, c \in AggChunks : streaming /\ ChatOnChunk(s, c[1], c[2])
    \/ \E s \in Sockets : streaming /\ ChatOnDone(s, Null)
    \/ \E text \in Texts : (~streaming => Len(chatSent) < MaxExchanges) /\ HandleSend(text)

SpecAgg == Init /\ [][NextAgg]_vars

\* the PTY terminal and the chat hook while neither is torn down: sockets are
\* lost and re-created, the token comes and goes
NextLife ==
    \/ PtyMount
    \/ \E s \in PtySockets : PtyOnOpen(s)
    \/ \E s \in PtySockets : PtyOnClose(s)
    \/ \E s \in PtySockets : PtyOnError(s)
    \/ \E id \in PtySockets : PtyTimerFire(id)
    \/ NumSockets = 0 /\ chatTimers = 0 /\ ChatConnect
    \/ ChatTimerFire
    \/ \E s \in Sockets : ChatOnOpen(s)
    \/ \E s \in Sockets : ChatOnClose(s)
    \/ Logout
    \/ Login

SpecLife == Init /\ [][NextLife]_vars

\* the PTY terminal writing to its socket: keystrokes, commands, uploads and
\* resizes while the socket comes and goes, up to teardown
NextIO ==
    \/ PtyMount
    \/ PtyCleanup
    \/ \E s \in PtySockets : Len(ptySent) < MaxPtyFrames /\ PtyOnOpen(s)
    \/ \E s \in PtySockets : PtyOnClose(s)
    \/ \E id \in PtySockets : PtyTimerFire(id)
    \/ \E cmd \in Keys : PtySendCommand(cmd)
    \/ \E seq \in Keys : PtySendKey(seq)
    \/ \E text \in MobileTexts : PtyHandleMobileSend(text)
    \/ \E data \in Keys : PtyOnData(data)
    \/ \E data \in Keys : PtyOnBinary(data)
    \/ PtyHandleFiles(<<"f">>)
    \/ PtyUploadResolved("f")
    \/ \E d \in FitDelays, size \in Sizes : PtyFitTimerFire(d, size)
    \/ \E size \in Sizes : PtyOnResize(size)

SpecIO == Init /\ [][NextIO]_vars

\* one chat connection on which the remote side sends any event at any time,
\* also events no submission asked for or that follow the end of an exchange
NextStream ==
    \/ NumSockets = 0 /\ ChatConnect
    \/ \E s \in Sockets : ChatOnOpen(s)
    \/ \E s \in Sockets, c \in StreamChunksIn : ChatOnChunk(s, c[1], c[2])
    \/ \E s \in Sockets : ChatOnDone(s, Null)
    \/ \E s \in Sockets, sid \in SessionIds : ChatOnSessionId(s, sid)
    \/ \E s \in Sockets, message \in ErrorTexts : ChatOnError(s, message)
    \/ \E text \in Texts : HandleSend(text)

SpecStream == Init /\ [][NextStream]_vars

\* the composer: uploads, removals and submissions over a chat socket that
\* opens, closes and is re-created
NextCompose ==
    \/ NumSockets = 0 /\ ChatConnect
    \/ ChatTimerFire
    \/ \E s \in Sockets : ChatOnOpen(s)
    \/ \E s \in Sockets : ChatOnClose(s)
    \/ \E s \in Sockets : ChatOnDone(s, Null)
    \/ \E files \in Batches : ChatHandleFileUpload(files)
    \/ ChatUploadResolved
    \/ ChatUploadRejected
    \/ ChatErrTimerFire
    \/ \E index \in 1..Cardinality(Files) : RemoveAttachment(index)
    \/ \E text \in Texts : HandleSend(text)

SpecCompose == Init /\ [][NextCompose]_vars

\* uploads in both places, each file succeeding or failing: batches handed to
\* the terminal while its socket opens and closes and keystrokes are typed,
\* and batches handed to the composer
NextUp ==
    \/ PtyMount
    \/ \E s \in PtySockets : Len(ptySent) < MaxPtyFrames /\ PtyOnOpen(s)
    \/ \E s \in PtySockets : PtyOnClose(s)
    \/ \E data \in Keys : PtyOnData(data)
    \/ \E files \in Batches : PtyHandleFiles(files)
    \/ \E file \in Files : PtyUploadResolved(file)
    \/ \E file \in Files : PtyUploadRejected(file)
    \/ \E files \in Batches : ChatHandleFileUpload(files)
    \/ ChatUploadResolved
    \/ ChatUploadRejected
    \/ ChatErrTimerFire

SpecUp == Init /\ [][NextUp]_vars

\* the terminal receiving: frames arrive on sockets that open, close and are
\* re-created, before and after teardown, between the terminal's own lines
NextIn ==
    \/ PtyMount
    \/ PtyCleanup
    \/ \E s \in PtySockets : PtyOnOpen(s)
    \/ \E s \in PtySockets : PtyOnClose(s)
    \/ \E id \in PtySockets : PtyTimerFire(id)
    \/ \E s \in PtySockets, frame \in InFrames : PtyOnMessage(s, frame)
    \/ PtyHandleFiles(<<"f">>)
    \/ PtyUploadRejected("f")

SpecIn == Init /\ [][NextIn]_vars

\* the chat hook and the command runner receiving well-formed and malformed
\* frames during an exchange and during a command
NextBad ==
    \/ NumSockets = 0 /\ ChatConnect
    \/ \E s \in Sockets : ChatOnOpen(s)
    \/ \E s \in Sockets : ChatOnChunk(s, "a", Null)
    \/ \E s \in Sockets : ChatOnDone(s, Null)
    \/ \E s \in Sockets, raw \in MalformedFrames : ChatOnMalformed(s, raw)
    \/ (~streaming => Len(chatSent) < MaxExchanges) /\ HandleSend("q")
    \/ TpMount
    \/ \E s \in TpSockets : TpOnOpen(s)
    \/ \E s \in TpSockets : TpOnExit(s, Null)
    \/ \E s \in TpSockets, raw \in MalformedFrames : TpOnMalformed(s, raw)
    \/ TpSendCommand("ls")

SpecBad == Init /\ [][NextBad]_vars

\* the side bar used during an exchange: the user submits, selects sessions
\* and starts new ones while chunks, done and error events and the answers to
\* the message fetches arrive in any order
NextSess ==
    \/ NumSockets = 0 /\ ChatConnect
    \/ \E s \in Sockets : ChatOnOpen(s)
    \/ \E s \in Sockets : streaming /\ ChatOnChunk(s, "a", Null)
    \/ \E s \in Sockets : streaming /\ ChatOnDone(s, Null)
    \/ \E s \in Sockets : streaming /\ ChatOnError(s, "e")
    \/ (~streaming => Len(chatSent) < MaxExchanges) /\ HandleSend("q")
    \/ \E id \in ListedSessions : SelectSession(id)
    \/ \E id \in ListedSessions : FetchResolved(id)
    \/ \E id \in ListedSessions : FetchRejected(id)
    \/ NewSession

SpecSess == Init /\ [][NextSess]_vars

\* the streaming gate: the user submits on the first socket and the remote
\* side answers there; that socket may be lost and is then re-created.  Timers
\* fire, a socket being connected opens, and an exchange whose socket is open
\* is answered; when a socket is lost is up to the network.
GateAnswer == streaming /\ ChatOnDone(1, Null)

GateOpen == \E s \in Sockets : ChatOnOpen(s)

NextGate ==
    \/ NumSockets = 0 /\ ChatConnect
    \/ ChatTimerFire
    \/ GateOpen
    \/ ChatOnClose(1)
    \/ streaming /\ ChatOnChunk(1, "a", Null)
    \/ GateAnswer
    \/ \E text \in Texts : wsRef = 1 /\ HandleSend(text)

SpecGate ==
    /\ Init /\ [][NextGate]_vars
    /\ WF_vars(ChatTimerFire) /\ WF_vars(GateOpen) /\ WF_vars(GateAnswer)

\* the command runner from mount to teardown and after
NextTp ==
    \/ TpMount
    \/ TpCleanup
    \/ \E s \in TpSockets : TpOnOpen(s)
    \/ \E s \in TpSockets : TpOnClose(s)
    \/ TpTimerFire
    \/ \E s \in TpSockets, cwd \in {Null, "/root"} : TpOnExit(s, cwd)
    \/ \E s \in TpSockets, cwd \in Cwds : TpOnPrompt(s, cwd)
    \/ \E s \in TpSockets, content \in OutContents : TpOnOutput(s, content)
    \/ \E cmd \in Cmds : TpSendCommand(cmd)
    \/ Logout
    \/ Login

SpecTp == Init /\ [][NextTp]_vars

(***************************************************************************)
(* Properties.  The words of the specification are restated here on their  *)
(* own terms: what a buffer holds is read off the buffer, what a frame     *)
(* carries is read off the wire.                                           *)
(***************************************************************************)
HasResult(chunks) == \E i \in 1..Len(chunks) : chunks[i].type = "result"

\* content of the result chunk that no result chunk follows
LastResultContent(chunks) ==
    LET i == CHOOSE k \in 1..Len(chunks) :
                 /\ chunks[k].type = "result"
                 /\ \A j \in (k + 1)..Len(chunks) : chunks[j].type # "result"
    IN chunks[i].content

\* content of the result chunk that no result chunk precedes
FirstResultContent(chunks) ==
    LET i == CHOOSE k \in 1..Len(chunks) :
                 /\ chunks[k].type = "result"
                 /\ \A j \in 1..(k - 1) : chunks[j].type # "result"
    IN chunks[i].content

\* the text chunks' contents, left to right, nothing in between
RECURSIVE TextConcat(_)
TextConcat(chunks) ==
    IF chunks = <<>> THEN ""
    ELSE (IF Head(chunks).type = "text" THEN Head(chunks).content ELSE "")
             \o TextConcat(Tail(chunks))

\* this step appends one assistant message with content c, and nothing else
AppendsAssistant(c) ==
    messages' = Append(messages,
                       [role |-> "assistant", content |-> c, attachments |-> <<>>])

\* this step is a run of the done handler
DoneStep == lastOp' = "done"

\* this step writes a frame to the chat socket; the frame it writes
SendStep == Len(chatSent') = Len(chatSent) + 1
NewFrame == chatSent'[Len(chatSent')]

\* C1 (as claimed): when the buffer holds a result chunk, the message that done
\* appends carries the content of the LAST result chunk.
C1_LastResultWins ==
    [][(DoneStep /\ HasResult(streamChunks) /\ messages' # messages)
           => AppendsAssistant(LastResultContent(streamChunks))]_vars

\* C1 (amended): when the buffer holds a result chunk, done appends one assistant
\* message carrying the content of the FIRST result chunk in arrival order,
\* whatever else the buffer holds, and appends nothing when that content is empty.
C1_FirstResultWins ==
    [][(DoneStep /\ HasResult(streamChunks))
           => IF FirstResultContent(streamChunks) = ""
              THEN messages' = messages
              ELSE AppendsAssistant(FirstResultContent(streamChunks))]_vars

\* done ran on a buffer holding text and two result chunks of different content,
\* and the history ends with the first one's content
C1_Witness ==
    /\ lastOp = "done"
    /\ Cardinality(ResultIndices(lastBuf)) = 2
    /\ \E i \in 1..Len(lastBuf) : lastBuf[i].type = "text" /\ lastBuf[i].content # ""
    /\ FirstResultContent(lastBuf) # LastResultContent(lastBuf)
    /\ messages # <<>>
    /\ messages[Len(messages)].role = "assistant"
    /\ messages[Len(messages)].content = FirstResultContent(lastBuf)

\* C2: when the buffer holds no result chunk, the assistant message that done
\* appends carries the contents of exactly the text chunks, concatenated in
\* arrival order with no separator; chunks of other types contribute nothing.
C2_TextConcatFallback ==
    [][(DoneStep /\ ~HasResult(streamChunks) /\ messages' # messages)
           => AppendsAssistant(TextConcat(streamChunks))]_vars

\* done ran on <<text "a", tool_use "b", text "b">> and appended "ab"
C2_Witness ==
    /\ lastOp = "done"
    /\ lastBuf = << [content |-> "a", type |-> "text"],
                    [content |-> "b", type |-> "tool_use"],
                    [content |-> "b", type |-> "text"] >>
    /\ messages[Len(messages)] =
           [role |-> "assistant", content |-> "ab", attachments |-> <<>>]

\* the final content computed from a buffer is empty
EmptyFinal(chunks) ==
    IF HasResult(chunks) THEN FirstResultContent(chunks) = ""
    ELSE TextConcat(chunks) = ""

\* C3: a done event whose final content is empty (an empty buffer, a buffer of
\* tool_use / tool_result chunks only) leaves the history unchanged, and still
\* clears the buffer and sets streaming to false.
C3_EmptyFinalizationSuppressed ==
    [][(DoneStep /\ EmptyFinal(streamChunks))
           => /\ messages' = messages
              /\ streamChunks' = <<>>
              /\ streaming' = FALSE]_vars

\* done ran on a non-empty buffer without text or result; the history still ends
\* with the user's message, the buffer is empty and streaming is off
C3_Witness ==
    /\ lastOp = "done"
    /\ lastBuf # <<>>
    /\ \A i \in 1..Len(lastBuf) : lastBuf[i].type \notin {"text", "result"}
    /\ messages # <<>>
    /\ messages[Len(messages)].role = "user"
    /\ streamChunks = <<>>
    /\ ~streaming

\* C4: a submission attempted while streaming is true is rejected: it appends no
\* message, sends nothing, and leaves the buffer and the gate as they are.
C4_MutualExclusion ==
    [][(streaming /\ lastOp' \in {"handleSend.empty", "handleSend.streaming",
                                  "handleSend.sent", "handleSend.dropped"})
           => /\ messages' = messages
              /\ chatSent' = chatSent
              /\ streamChunks' = streamChunks
              /\ streaming' = streaming
              /\ attachments' = attachments]_vars

\* handleSend returned at the streaming gate with chunks in the buffer
C4_Witness ==
    /\ lastOp = "handleSend.streaming"
    /\ streaming
    /\ streamChunks # <<>>
    /\ Len(chatSent) = 1

\* C5 (as claimed): on a fresh transport with no session id the message carries
\* is_first_message = true and session_id = null; once a session_id event has
\* been received, every later message carries is_first_message = false and a
\* bound session id.
C5_EveryLaterMessageNotFirst ==
    [][SendStep
           => IF sidSeen
              THEN ~NewFrame.is_first_message /\ NewFrame.session_id \in SessionIds
              ELSE currentSessionId = Null
                      => NewFrame.is_first_message /\ NewFrame.session_id = Null]_vars

\* C5 (amended): every message carries the store's current session id; on a
\* fresh transport with no session id it carries is_first_message = true and
\* session_id = null; after a session_id event it carries is_first_message =
\* false as long as the store still holds a session id and resetFirstMessage
\* has not run since the event.
C5_FirstMessageFlagLifecycle ==
    [][SendStep
           => /\ NewFrame.session_id = currentSessionId
              /\ (sidSeen /\ currentSessionId # Null) => ~NewFrame.is_first_message
              /\ currentSessionId = Null => NewFrame.is_first_message
              /\ ~sidSeen => NewFrame.is_first_message]_vars

\* a first message with session_id null, then, a session_id event later, a
\* second message that is not first and carries the session id
C5_Witness ==
    /\ Len(chatSent) = 2
    /\ chatSent[1].is_first_message /\ chatSent[1].session_id = Null
    /\ ~chatSent[2].is_first_message /\ chatSent[2].session_id = "s1"
    /\ sidSeen

\* C6 (as claimed): after disconnect() has run, following a session_id event,
\* the next message sent carries is_first_message = true.
C6_DisconnectResetsFlag ==
    [][(SendStep /\ afterDisconnect) => NewFrame.is_first_message]_vars

\* C6 (amended): the flag is reset by resetFirstMessage(), not by disconnect():
\* disconnect() leaves sentFirstRef as it is, and after resetFirstMessage() the
\* next message sent carries is_first_message = true, also when a session id is
\* known, unless a session_id event is handled in between.
C6_ResetFirstMessageResetsFlag ==
    [][/\ (SendStep /\ resetPending) => NewFrame.is_first_message
       /\ (wsRef # 0 /\ wsRef' = 0) => sentFirstRef' = sentFirstRef]_vars

\* a message that was not first, then, resetFirstMessage having run, a message
\* that is first although it carries a session id
C6_Witness ==
    /\ Len(chatSent) = 2
    /\ ~chatSent[1].is_first_message
    /\ chatSent[2].is_first_message /\ chatSent[2].session_id = "s1"

\* C7 (as claimed): is_first_message is true exactly when no session id is known
\* or no session_id event has been received on the current connection.
C7_PerConnectionFlag ==
    [][SendStep
           => NewFrame.is_first_message = (currentSessionId = Null \/ ~sidOnCur)]_vars

\* C7 (amended): is_first_message is per hook instance, not per connection: it is
\* true exactly when no session id is known or no session_id event has been
\* handled by the hook since it was created or since resetFirstMessage() last
\* ran; a socket that closes and is re-created leaves the flag as it was.
C7_PerHookFlag ==
    [][SendStep
           => NewFrame.is_first_message = (currentSessionId = Null \/ ~sidSeen)]_vars

\* a message just sent on the second socket, on which no session_id event was
\* handled, is not a first message
C7_Witness ==
    /\ lastOp = "handleSend.sent"
    /\ wsRef = 2
    /\ ~sidOnCur
    /\ ~disposed
    /\ ~chatSent[Len(chatSent)].is_first_message

\* C8: once the PTY terminal's cleanup has run, connect() creates no WebSocket,
\* whatever close, error and timer events follow.
C8_NoSocketAfterTeardown ==
    [][ptyPhase = "tornDown" => PtyNumSockets' = PtyNumSockets]_vars

\* after the cleanup a reconnect timer fired and connect() ran
C8_Witness ==
    /\ ptyPhase = "tornDown"
    /\ ptyLast = "timer"
    /\ token

\* C9: after the PTY terminal's cleanup has run, no reconnect timer is pending.
C9_NoTimerAfterTeardown == ptyPhase = "tornDown" => ptyTimers = {}

\* C10: after disconnect() on the chat hook, no reconnect is scheduled and the
\* hook creates no new WebSocket.
C10_NoReconnectAfterDisconnect ==
    /\ [](disposed => chatTimers = 0)
    /\ [][(disposed /\ disposed') => NumSockets' = NumSockets]_vars

\* C11: once the command runner's cleanup has run, with its socket open or with
\* a reconnect timer pending, connect() creates no WebSocket.
C11_NoRunnerSocketAfterTeardown ==
    [][tpPhase = "tornDown" => TpNumSockets' = TpNumSockets]_vars

\* this step is the close of a PTY socket / of a chat socket
PtyCloseStep == \E s \in PtySockets : ptySocks[s] # "closed" /\ ptySocks'[s] = "closed"
ChatCloseStep == \E s \in Sockets : socks[s] # "closed" /\ socks'[s] = "closed"

\* C12: on every close of a transport that is not torn down, also a close that
\* an error event caused, the PTY status becomes disconnected and exactly one
\* reconnect timer is armed, with a delay of 3000 ms whatever the number of
\* failures before it; a transport that has lost a socket creates the next one
\* only in the step in which such a timer fires, one socket per timer.
C12_FixedBackoff ==
    [][/\ PtyCloseStep
            => /\ status' = "disconnected"
               /\ Cardinality(ptyTimers') = Cardinality(ptyTimers) + 1
               /\ ptyDelay' = 3000
       /\ ChatCloseStep
            => /\ chatTimers' = chatTimers + 1
               /\ chatDelay' = 3000
       /\ (PtyNumSockets > 0 /\ PtyNumSockets' # PtyNumSockets)
            => /\ Cardinality(ptyTimers') = Cardinality(ptyTimers) - 1
               /\ PtyNumSockets' = PtyNumSockets + 1
       /\ (NumSockets > 0 /\ NumSockets' # NumSockets)
            => /\ chatTimers' = chatTimers - 1
               /\ NumSockets' = NumSockets + 1]_vars

\* both transports have lost two sockets in a row, the PTY's second one to an
\* error before it opened; each has its one timer pending, armed with 3000 ms
C12_Witness ==
    /\ ptyPhase = "mounted"
    /\ ptySocks[1] = "closed" /\ ptySocks[2] = "closed" /\ ptySocks[3] = "unused"
    /\ ptyLast = "close"
    /\ status = "disconnected" /\ ptyTimers = {2} /\ ptyDelay = 3000
    /\ socks[1] = "closed" /\ socks[2] = "closed"
    /\ chatTimers = 1 /\ chatDelay = 3000

\* C13: each transport (chat hook, PTY terminal, command runner) has at most one
\* reconnect timer outstanding.
C13_AtMostOneTimer ==
    /\ chatTimers <= 1
    /\ Cardinality(ptyTimers) <= 1
    /\ tpTimers <= 1

\* this step is a handleSend that passed its own gates and called sendMessage
CallsSendMessage == lastOp' \in {"handleSend.sent", "handleSend.dropped"}

\* C14: sendMessage called while the chat socket is absent or not OPEN transmits
\* nothing and leaves messages, streaming and streamChunks as they are; nothing
\* is queued: a frame is written only by a sendMessage call made while the
\* socket is OPEN, one frame per call, so no later open replays a payload.
C14_SendWhileNotConnectedIsNoop ==
    [][/\ (CallsSendMessage /\ (wsRef = 0 \/ socks[wsRef] # "open"))
            => /\ chatSent' = chatSent
               /\ messages' = messages
               /\ streaming' = streaming
               /\ streamChunks' = streamChunks
       /\ chatSent' # chatSent
            => /\ CallsSendMessage
               /\ wsRef # 0 /\ socks[wsRef] = "open"
               /\ Len(chatSent') = Len(chatSent) + 1
               /\ SubSeq(chatSent', 1, Len(chatSent)) = chatSent]_vars

\* sendMessage has just returned at its guard, the socket still connecting:
\* nothing was ever written and the history is empty
C14_Witness ==
    /\ lastOp = "handleSend.dropped"
    /\ wsRef # 0 /\ socks[wsRef] = "connecting"
    /\ chatSent = <<>>
    /\ messages = <<>>
    /\ ~streaming

\* the frame this step writes to a PTY socket
NewPtyFrame == ptySent'[Len(ptySent')]

\* C15: every frame of the PTY terminal (keystrokes, binary data, mobile input,
\* injected command, upload path, resize) is written to a socket that is OPEN,
\* one frame per step; a write attempted while the current socket is absent or
\* not OPEN writes nothing, and nothing is replayed when a socket opens: the
\* open writes the one resize frame carrying the terminal's current size.
C15_SendsOnlyOnOpenSocket ==
    [][ptySent' # ptySent
           => /\ Len(ptySent') = Len(ptySent) + 1
              /\ SubSeq(ptySent', 1, Len(ptySent)) = ptySent
              /\ ptySocks'[NewPtyFrame.sock] = "open"
              /\ \/ /\ ptyWsRef # 0
                    /\ NewPtyFrame.sock = ptyWsRef
                    /\ ptySocks[ptyWsRef] = "open"
                 \/ /\ ptySocks[NewPtyFrame.sock] = "connecting"
                    /\ NewPtyFrame.type = "resize"
                    /\ NewPtyFrame.cols = termSize[1]
                    /\ NewPtyFrame.rows = termSize[2]]_vars

\* a data frame went out while the socket was open; the socket was then lost and
\* a write attempted while disconnected was skipped
C15_Witness ==
    /\ ptyLast = "write.skipped"
    /\ ptyPhase = "mounted"
    /\ status = "disconnected"
    /\ ptyWsRef # 0 /\ ptySocks[ptyWsRef] = "closed"
    /\ Len(ptySent) = 2
    /\ ptySent[2].type = "data"

\* C16: each open of a PTY socket sets status to connected and writes exactly
\* one frame, on the socket that opened: the resize frame carrying the
\* terminal's current cols and rows.
C16_HandshakeOncePerOpen ==
    [][\A s \in PtySockets :
           (ptySocks[s] = "connecting" /\ ptySocks'[s] = "open")
               => /\ status' = "connected"
                  /\ ptySent' = Append(ptySent,
                         [sock |-> s, kind |-> "text", type |-> "resize",
                          cols |-> termSize[1], rows |-> termSize[2]])]_vars

\* the second socket has just opened, after a fit changed the size: both opens
\* wrote their resize frame, the second one with the size of the moment
C16_Witness ==
    /\ ptyLast = "open"
    /\ status = "connected"
    /\ ptySocks[1] = "closed" /\ ptySocks[2] = "open"
    /\ Len(ptySent) = 2
    /\ ptySent[1].sock = 1 /\ ptySent[1].type = "resize"
    /\ ptySent[2].sock = 2 /\ ptySent[2].type = "resize"
    /\ <<ptySent[1].cols, ptySent[1].rows>> # termSize
    /\ <<ptySent[2].cols, ptySent[2].rows>> = termSize

\* this step runs the PTY terminal's connect(): at mount, or from a timer
PtyConnectStep == ptyPhase' # ptyPhase \/ Cardinality(ptyTimers') < Cardinality(ptyTimers)

\* C17: with no token in storage no step creates a WebSocket, neither on the
\* PTY terminal nor on the chat hook, and a step in which the PTY terminal's
\* connect() runs leaves its status disconnected.
C17_NoTokenNoSocket ==
    [][~token
           => /\ PtyNumSockets' = PtyNumSockets
              /\ NumSockets' = NumSockets
              /\ PtyConnectStep => status' = "disconnected"]_vars

\* with the token gone, the PTY terminal's reconnect timer has fired and the
\* chat hook's too: neither created a socket, the PTY status is disconnected
C17_Witness ==
    /\ ~token
    /\ ptyPhase = "mounted" /\ ptyLast = "timer"
    /\ PtyNumSockets = 1 /\ ptySocks[1] = "closed" /\ ptyTimers = {}
    /\ status = "disconnected"
    /\ NumSockets = 1 /\ socks[1] = "closed" /\ chatTimers = 0

\* this step is the open of a PTY socket
PtyOpenStep ==
    \E s \in PtySockets : ptySocks[s] = "connecting" /\ ptySocks'[s] = "open"

\* C18: the PTY status changes only from disconnected to connecting, in a step
\* that creates a socket; from connecting to connected, in a step in which a
\* socket opens; and from connecting or connected to disconnected, in a step in
\* which a socket closes.  It never goes from disconnected to connected nor from
\* connected to connecting.
C18_StatusStateMachine ==
    [][status' # status
           => \/ /\ status = "disconnected" /\ status' = "connecting"
                 /\ PtyNumSockets' = PtyNumSockets + 1
              \/ /\ status = "connecting" /\ status' = "connected"
                 /\ PtyOpenStep
              \/ /\ status \in {"connecting", "connected"}
                 /\ status' = "disconnected"
                 /\ PtyCloseStep]_vars

\* the status has gone round three times: the first socket was open and is
\* lost, the second was lost before it opened, the third has just opened
C18_Witness ==
    /\ status = "connected"
    /\ ptyLast = "open"
    /\ ptySocks[1] = "closed" /\ ptySocks[2] = "closed" /\ ptySocks[3] = "open"
    /\ Len(ptySent) = 2

\* C19: between event handlers the buffer is non-empty only while streaming is
\* true, whatever submissions and chunk, session_id, done and error events came.
C19_BufferOnlyWhileStreaming == streamChunks # <<>> => streaming

\* C20: a user message in the history is followed by at most one assistant
\* message before the next user message, whatever events follow the submission.
C20_OneAssistantPerSubmission ==
    \A i \in 1..Len(messages) :
        (messages[i].role = "user" /\ i + 2 <= Len(messages))
            => ~(messages[i + 1].role = "assistant" /\ messages[i + 2].role = "assistant")

\* C21: an error event, whatever the buffer holds, appends exactly one assistant
\* message whose content is "Error: " followed by the event's message, empties
\* the buffer and sets streaming to false.
C21_ErrorFinalizes ==
    [][lastEvt'.type = "error"
           => /\ messages' = Append(messages,
                      [role |-> "assistant",
                       content |-> "Error: " \o lastEvt'.message,
                       attachments |-> <<>>])
              /\ streamChunks' = <<>>
              /\ streaming' = FALSE]_vars

\* an error event has just been handled with text and result chunks in the
\* buffer: the history ends with the user's message and "Error: e"
C21_Witness ==
    /\ lastEvt = [type |-> "error", message |-> "e"]
    /\ Len(lastBuf) = 2
    /\ lastBuf[1].type = "text" /\ lastBuf[2].type = "result"
    /\ Len(messages) = 2
    /\ messages[1].role = "user"
    /\ messages[2] = [role |-> "assistant", content |-> "Error: e", attachments |-> <<>>]
    /\ streamChunks = <<>>
    /\ ~streaming

\* the buffer changes in this step otherwise than by a chunk event
OtherBufferChange == streamChunks' # streamChunks /\ lastEvt'.type # "chunk"

\* C22 (as claimed): each chunk event appends the one entry {content, type} at
\* the end of the buffer, type being the event's chunk_type if the field is
\* present and "text" otherwise; the entries before it stay as they are, and
\* nothing else changes the buffer but a reset.
C22_AppendChunkTypeIfPresent ==
    [][/\ lastEvt'.type = "chunk"
            => streamChunks' = Append(streamChunks,
                   [content |-> lastEvt'.content,
                    type |-> IF lastEvt'.chunk_type # Null
                             THEN lastEvt'.chunk_type ELSE "text"])
       /\ OtherBufferChange => streamChunks' = <<>>]_vars

\* C22 (amended): each chunk event appends the one entry {content, type} at the
\* end of the buffer, type being the event's chunk_type if that is a non-empty
\* string and "text" otherwise (also for an empty chunk_type); the entries
\* before it stay as they are, equal neighbours included, and nothing else
\* changes the buffer but a reset.
C22_AppendChunkTypeOrText ==
    [][/\ lastEvt'.type = "chunk"
            => streamChunks' = Append(streamChunks,
                   [content |-> lastEvt'.content,
                    type |-> IF lastEvt'.chunk_type \notin {Null, ""}
                             THEN lastEvt'.chunk_type ELSE "text"])
       /\ OtherBufferChange => streamChunks' = <<>>]_vars

\* a chunk with an empty chunk_type has just been appended as text, after an
\* equal entry and a result entry that are both still in place
C22_Witness ==
    /\ lastEvt = [type |-> "chunk", content |-> "a", chunk_type |-> ""]
    /\ streamChunks = << [content |-> "b", type |-> "result"],
                         [content |-> "a", type |-> "text"],
                         [content |-> "a", type |-> "text"] >>

(***************************************************************************)
(* C23: every reference of a successful composer upload is added to the   *)
(* pending attachment list; a reference leaves the list only by explicit   *)
(* removal or inside the attachments of a chat message written to the      *)
(* socket; and no frame other than a chat message is ever written, so a    *)
(* reference never travels on its own.                                     *)
(***************************************************************************)
InSeq(x, seq) == \E i \in 1..Len(seq) : seq[i] = x

\* the step wrote one chat message whose attachments hold the reference
SentWith(ref) ==
    /\ chatSent' # chatSent
    /\ chatSent' = Append(chatSent, chatSent'[Len(chatSent')])
    /\ InSeq(ref, chatSent'[Len(chatSent')].attachments)

C23_PendingUntilSent ==
    [][/\ (upBatch # <<>> /\ attachments' # attachments /\ upBatch' = Tail(upBatch))
           => attachments' = Append(attachments, Ref(upBatch[1]))
       /\ \A f \in Files :
              (InSeq(Ref(f), attachments) /\ ~InSeq(Ref(f), attachments'))
                  => (lastOp' = "removeAttachment" \/ SentWith(Ref(f)))
       /\ \A i \in 1..Len(chatSent') : chatSent'[i].type = "message"]_vars

(***************************************************************************)
(* C24: when a terminal upload succeeds while the terminal's socket is     *)
(* open, exactly one frame is appended to what was sent before, a data     *)
(* frame whose payload is the returned path as it is (no newline, no       *)
(* carriage return); handing files over, and an upload that fails or       *)
(* succeeds without an open socket, send nothing.                          *)
(***************************************************************************)
\* the upload of the file settles in this step, successfully
PtyResolvedStep(f) == f \in uploads /\ f \notin uploads' /\ ptyLast' # "upload.failed"

PtyIsOpen == ptyWsRef # 0 /\ ptySocks[ptyWsRef] = "open"

C24_UploadInjectsPath ==
    [][/\ \A f \in Files :
              (PtyResolvedStep(f) /\ PtyIsOpen)
                  => ptySent' = Append(ptySent, DataFrame(ptyWsRef, "text", PathOf(f)))
       /\ (uploads' # uploads /\ ~(\E f \in Files : PtyResolvedStep(f) /\ PtyIsOpen))
              => ptySent' = ptySent]_vars

\* the path of f was injected behind the handshake frame, on the open socket
C24_Witness ==
    /\ Len(ptySent) = 2
    /\ ptySent[1].type = "resize"
    /\ ptySent[2] = DataFrame(1, "text", "/up/f")
    /\ uploads = {}
    /\ ptyCalls["f"] = 1
    /\ ptyLast = "write"

(***************************************************************************)
(* C25: the upload call is made once for every file handed to an upload    *)
(* handler, in the terminal at once for every file of the batch and in the *)
(* composer when the file's turn comes, and never again: a failure makes   *)
(* no further call for the file, sends nothing, adds nothing to the        *)
(* pending list, and leaves the other files of the batch to be uploaded    *)
(* (the terminal's stay in progress, the composer's next one is called).   *)
(***************************************************************************)
PtyFailedStep(f) == f \in uploads /\ f \notin uploads' /\ ptyLast' = "upload.failed"

\* the composer's upload at the head of the batch settles in this step
ChatSettleStep == upBatch # <<>> /\ upBatch' # upBatch

C25_NoUploadRetry ==
    [][/\ \A f \in Files : ptyCalls'[f] <= 1 /\ chatCalls'[f] <= 1
       /\ \A f \in Files :
              /\ (f \notin uploads /\ f \in uploads') => ptyCalls'[f] = ptyCalls[f] + 1
              /\ ptyCalls'[f] # ptyCalls[f] => (f \notin uploads /\ f \in uploads')
              /\ PtyFailedStep(f) => /\ uploads' = uploads \ {f}
                                     /\ ptySent' = ptySent
       /\ (upBatch = <<>> /\ upBatch' # <<>>)
              => chatCalls' = [chatCalls EXCEPT ![upBatch'[1]] = @ + 1]
       /\ ChatSettleStep
              => /\ upBatch' = Tail(upBatch)
                 /\ chatCalls' = IF Tail(upBatch) # <<>>
                                 THEN [chatCalls EXCEPT ![upBatch[2]] = @ + 1]
                                 ELSE chatCalls
                 /\ errTimers' # errTimers => attachments' = attachments
       /\ chatCalls' # chatCalls => upBatch' # upBatch]_vars

\* in both places the batch f, g was handed over, f failed and g succeeded
C25_Witness ==
    /\ ptyCalls = [f \in Files |-> 1]
    /\ uploads = {}
    /\ termOut = <<UploadFailedLine("f")>>
    /\ Len(ptySent) = 2
    /\ ptySent[2] = DataFrame(1, "text", PathOf("g"))
    /\ chatCalls = [f \in Files |-> 1]
    /\ upBatch = <<>>
    /\ attachments = <<Ref("g")>>
    /\ uploadError = FailureNotice("f")

(***************************************************************************)
(* C26: a failed upload raises a notice that a pending timer will dismiss, *)
(* in the composer and in the terminal; in the terminal the failure line   *)
(* naming the file is written to the output buffer as well; no socket is   *)
(* closed or dropped by the failure.  The terminal's only upload display   *)
(* is the indicator driven by uploading and uploadInfo.                    *)
(***************************************************************************)
C26_FailureFeedback ==
    [][/\ \A f \in Files :
              PtyFailedStep(f)
                  => /\ uploading' \/ uploadInfo' # ""
                     /\ termRef => termOut' = Append(termOut, UploadFailedLine(f))
                     /\ ptySocks' = ptySocks /\ ptyWsRef' = ptyWsRef
       /\ (ChatSettleStep /\ attachments' = attachments)
              => /\ uploadError' = FailureNotice(upBatch[1])
                 /\ errTimers' = errTimers + 1
                 /\ socks' = socks /\ wsRef' = wsRef
       /\ uploadError' # Null => errTimers' > 0]_vars

(***************************************************************************)
(* C27: every frame the terminal has sent that carries user data           *)
(* (keystrokes, pasted text, commands, mobile input, upload paths) is a    *)
(* binary frame, and every text frame it has sent is a resize frame.       *)
(***************************************************************************)
C27_UserDataIsBinary ==
    \A i \in 1..Len(ptySent) :
        /\ ptySent[i].type = "data" => ptySent[i].kind = "binary"
        /\ ptySent[i].kind = "text" => ptySent[i].type = "resize"

(***************************************************************************)
(* C28: while the terminal exists, a frame that arrives, binary or text,   *)
(* is appended to the render buffer as it is, once, in the arriving step;  *)
(* so the inbound entries of the render buffer are, in order, the frames   *)
(* that arrived while the terminal existed.  A text frame that reads like  *)
(* a control message is written like any other and changes nothing else.   *)
(***************************************************************************)
IsInbound(line) == \E frame \in InFrames : frame.data = line

ArrivedWithTerm(entry) == entry.term

DataOf(seq) == [i \in 1..Len(seq) |-> seq[i].data]

C28_InboundVerbatimInOrder ==
    /\ SelectSeq(termOut, IsInbound) = DataOf(SelectSeq(ptyIn, ArrivedWithTerm))
    /\ (ptyLast = "message" /\ ptyIn[Len(ptyIn)].term)
           => termOut[Len(termOut)] = ptyIn[Len(ptyIn)].data

\* a binary frame arrived on the first socket, which was then lost, and the
\* text frame arrived on the socket that replaced it
C28_Witness ==
    /\ ptyLast = "message"
    /\ Len(ptyIn) = 2
    /\ ptyIn[1].kind = "binary" /\ ptyIn[2].kind = "text"
    /\ termOut = <<"x", DisconnectedLine, "{type:resize}">>

(***************************************************************************)
(* C29: the mount fits at once and arms the 100, 500 and 1500 ms timers    *)
(* and the geometry observer; a timer that fires and a geometry change fit *)
(* and send one resize frame if the socket is open; teardown leaves no     *)
(* timer and no observer, and from then on no fit runs and nothing is      *)
(* sent.                                                                   *)
(***************************************************************************)
\* what one fit-and-resize attempt does to the sent frames
FitAttempt ==
    ptySent' = IF PtyIsOpen /\ termSize'[1] # 0 /\ termSize'[2] # 0
               THEN Append(ptySent, ResizeFrame(ptyWsRef, termSize'))
               ELSE ptySent

C29_ResizeSchedule ==
    [][/\ (ptyPhase = "unmounted" /\ ptyPhase' = "mounted")
              => /\ termSize' \in Sizes
                 /\ fitTimers' = {100, 500, 1500}
                 /\ observing'
       /\ (ptyPhase = "mounted" /\ ptyPhase' = "mounted"
             /\ (fitTimers' # fitTimers \/ termSize' # termSize))
              => /\ FitAttempt
                 /\ fitTimers' \subseteq fitTimers
                 /\ Cardinality(fitTimers \ fitTimers') <= 1
       /\ ptyPhase' = "tornDown" => (fitTimers' = {} /\ ~observing')
       /\ ptyPhase = "tornDown" => (termSize' = termSize /\ ptySent' = ptySent)]_vars

\* torn down after a fit sent its resize frame behind the handshake; the
\* closed socket's reconnect timer then fired and nothing was created or sent
C29_Witness ==
    /\ ptyPhase = "tornDown"
    /\ ptyLast = "timer"
    /\ fitTimers = {}
    /\ Len(ptySent) = 2
    /\ ptySent[2].type = "resize"
    /\ PtyNumSockets = 1

(***************************************************************************)
(* C30: every resize frame sent, by the open handler, a fit timer or a     *)
(* geometry change, carries the cols and rows the terminal has when the    *)
(* frame is sent, after the fit of that step if there is one; the frame    *)
(* holds nothing else, so equal dimensions give equal frames.              *)
(***************************************************************************)
C30_ResizeCarriesCurrentSize ==
    [][(Len(ptySent') = Len(ptySent) + 1 /\ NewPtyFrame.type = "resize")
           => NewPtyFrame = ResizeFrame(NewPtyFrame.sock, termSize')]_vars

\* the handshake sent 80 x 24; a later fit made the terminal 40 x 12 and sent
\* that
C30_Witness ==
    /\ Len(ptySent) = 2
    /\ ptySent[1] = ResizeFrame(1, <<80, 24>>)
    /\ ptySent[2] = ResizeFrame(1, <<40, 12>>)
    /\ termSize = <<40, 12>>
    /\ ptyLast = "write"

(***************************************************************************)
(* C31: while streaming, the bubble lists exactly the chunks that are not  *)
(* result chunks, in arrival order; it shows a busy indicator (the working *)
(* line, or the connecting line of the empty buffer) if and only if the    *)
(* buffer holds no result chunk; and it renders exactly one answer, a      *)
(* result chunk of the buffer, when one is present and none otherwise.     *)
(***************************************************************************)
RECURSIVE WithoutResults(_)
WithoutResults(chunks) ==
    IF chunks = <<>> THEN <<>>
    ELSE IF Head(chunks).type = "result" THEN WithoutResults(Tail(chunks))
    ELSE <<Head(chunks)>> \o WithoutResults(Tail(chunks))

C31_LiveProjection ==
    streaming
        => /\ StreamingBubble.activity = WithoutResults(streamChunks)
           /\ (StreamingBubble.indicator # "none") <=> ~HasResult(streamChunks)
           /\ IF HasResult(streamChunks)
              THEN /\ Len(StreamingBubble.answers) = 1
                   /\ StreamingBubble.answers[1].type = "result"
                   /\ InSeq(StreamingBubble.answers[1], streamChunks)
              ELSE StreamingBubble.answers = <<>>

\* two result chunks around a tool chunk
C31_Witness ==
    /\ streaming
    /\ Len(streamChunks) = 3
    /\ streamChunks[1].type = "result"
    /\ streamChunks[2].type = "tool_use"
    /\ streamChunks[3].type = "result"

(***************************************************************************)
(* C32: a malformed frame on the chat socket or on the runner's socket     *)
(* closes no socket, drops no socket reference, arms no reconnect timer    *)
(* and changes nothing of the store, the composer or the runner's view;    *)
(* the done or exit event that follows it is handled as always.            *)
(***************************************************************************)
C32_MalformedNotFatal ==
    [][/\ lastOp' = "malformed"
              => UNCHANGED <<storeVars, hookVars, attachments, composeVars>>
       /\ (lastOp = "malformed" /\ lastOp' = "done")
              => /\ messages' = DoneMessages(streamChunks)
                 /\ ~streaming' /\ streamChunks' = <<>>
                 /\ UNCHANGED hookVars
       /\ (tpLast' = "malformed" /\ UNCHANGED chatVars)
              => UNCHANGED <<tpWsRef, tpSocks, tpTimers, tpRunning, tpSent, tpViewVars>>
       /\ (tpLast = "malformed" /\ tpLast' = "exit")
              => /\ ~tpRunning'
                 /\ UNCHANGED <<tpWsRef, tpSocks, tpTimers, tpSent>>]_vars

\* both received a malformed frame in mid-work, the chat hook with a chunk
\* buffered, the runner with a command running
C32_Witness ==
    /\ lastOp = "malformed"
    /\ streaming /\ streamChunks # <<>>
    /\ IsOpen(wsRef)
    /\ tpLast = "malformed"
    /\ tpRunning
    /\ tpSocks[tpWsRef] = "open"

(***************************************************************************)
(* C33: whenever streaming is true it becomes false again, so that a       *)
(* further submission can pass the gate, also when the socket of the       *)
(* exchange closes before its done or error event and a new socket takes   *)
(* its place.                                                              *)
(***************************************************************************)
C33_GateReleased == streaming ~> ~streaming

(***************************************************************************)
(* C34: at any time at most one chat socket is connecting or open, and it  *)
(* is the socket held in wsRef (every socket the hook creates keeps its    *)
(* handlers, so a connecting or open socket can still write to the store). *)
(***************************************************************************)
C34_SingleLiveSocket ==
    \A s \in Sockets : socks[s] \in {"connecting", "open"} => s = wsRef

(***************************************************************************)
(* C35: the assistant message that a done or error event appends goes to   *)
(* the history that holds the user message of the submission it answers,   *)
(* also when another session was selected or a new one started since.      *)
(***************************************************************************)
C35_FinalizedInOwnSession ==
    [][(lastOp' \in {"done", "error"} /\ Len(messages') = Len(messages) + 1
          /\ chatSent # <<>>)
           => LET sub == chatSent[Len(chatSent)]
              IN InSeq(Msg("user", sub.content, sub.attachments), messages)]_vars

(***************************************************************************)
(* C36: when the last message fetch in flight delivers its response while  *)
(* a session is selected, the messages shown are those of the session that *)
(* currentSessionId names.                                                 *)
(***************************************************************************)
C36_SelectionRaceFree ==
    [][(fetches # {} /\ fetches' = {} /\ lastOp' = "fetch.resolved"
          /\ Truthy(currentSessionId'))
           => messages' = ServerMessages(currentSessionId')]_vars

(***************************************************************************)
(* C37: the terminal's uploading indicator is on in every state in which   *)
(* an upload is in flight, and off when none is.                           *)
(***************************************************************************)
C37_IndicatorWhileInFlight == uploading <=> uploads # {}

(***************************************************************************)
(* C38: while the terminal is mounted, and once the chat hook has created  *)
(* a socket, each of them has a socket that is connecting or open (or      *)
(* closing, its close event still to come) or a reconnect timer pending.   *)
(***************************************************************************)
PtyAlive ==
    \/ \E s \in PtySockets : ptySocks[s] \in {"connecting", "open", "closing"}
    \/ ptyTimers # {}

ChatAlive ==
    \/ \E s \in Sockets : socks[s] \in {"connecting", "open", "closing"}
    \/ chatTimers > 0

C38_NeverGivesUp ==
    /\ (ptyPhase = "mounted" /\ PtyNumSockets > 0) => PtyAlive
    /\ NumSockets > 0 => ChatAlive

(***************************************************************************)
(* C39: a command frame is sent only while running is false and sets it;   *)
(* running is cleared only by the handling of an exit event.               *)
(***************************************************************************)
C39_RunningGuardsCommands ==
    [][/\ tpSent' # tpSent => (~tpRunning /\ tpRunning')
       /\ (tpRunning /\ ~tpRunning') => tpLast' = "exit"]_vars

====
